---- MODULE Spec2Model ----
(***************************************************************************)
(* Model of the astrometry refinement of RMS (RMS/Astrometry/ACFnew.py):   *)
(* the residual evaluator matchStarsResiduals and the controller           *)
(* autoCheckFit, which drives three minimizations per matching radius;     *)
(* and of the programs around it: the FieldSolver and VideoRecorder        *)
(* processes, makeFlat, the driver of ExtractStars and                     *)
(* ConfigReader.parseCapture.  Each program has its own specification over *)
(* the same variables; the variables of the others keep their idle values. *)
(*                                                                         *)
(* Pixel coordinates are integers in quarter-pixel units, so that the radii *)
(* 3, 1.5 and 0.75 px are 12, 6 and 3.  Distances, means and costs are     *)
(* exact numbers (num/den)*sqrt(rad); the inputs are drawn from sets for   *)
(* which the distances pooled by one evaluation share their radicand (see  *)
(* ExactDistances).                                                        *)
(***************************************************************************)
EXTENDS Integers, Naturals, Sequences, FiniteSets, TLC

(***************************************************************************)
(* Bounds of the model                                                     *)
(***************************************************************************)
MaxFiles == 2          \* number of FF files in the CALSTARS list
MaxTrials == 2         \* cost evaluations modelled inside one minimizer call
MaxStars == 3          \* stars of an image given to a direct call of the evaluator

(***************************************************************************)
(* Program constants                                                       *)
(***************************************************************************)
radius_list_Ascending == <<3, 6, 12>>    \* variant: fine to coarse
radius_list == <<12, 6, 3>>      \* [3, 1.5, 0.75] px in quarter pixels
SENTINEL == 9999                 \* cost returned when nothing is matched
UNIT == 4                        \* coordinate units of the model in one pixel
FOV_W == 384                     \* field estimate of matchStarsResiduals
FOV_H == 288
X_RES == 48                      \* image size of the inputs, quarter pixels
Y_RES == 16

(***************************************************************************)
(* Input domains                                                           *)
(***************************************************************************)
\* Detected stars (Y, X, background, intensity)
StarA == <<4, 8, 0, 1>>
StarB == <<4, 40, 0, 1>>
StarLists == { <<StarA>>, <<StarB>>, <<StarA, StarB>> }

\* BSC.readBSC: the catalog stars (ra, dec, mag) up to config.catalog_mag_limit
readBSC == << <<8, 4, 2>>, <<40, 4, 3>> >>

RAVals == {0, 8}
DecVals == {0}
PosVals == {0}
ScaleVals == {1}
XPolyVals == { <<0, 0>>, <<-8, 0>> }
YPolyVals == { <<0, 0>>, <<-6, 0>> }
AstroParams == { <<r, d, p, f>> : r \in RAVals, d \in DecVals, p \in PosVals, f \in ScaleVals }

(***************************************************************************)
(* State of a call of autoCheckFit(config, platepar, calstars_list)        *)
(***************************************************************************)
VARIABLES
    config,         \* thresholds read by autoCheckFit
    calstars_list,  \* list of (FF file, star list)
    platepar_in,    \* the values of the calibration when the call was made
    catalog_stars,  \* the star catalog, array of (ra, dec, mag)
    disk,           \* the platepar file of the night directory and its .old copy
    platepar,       \* the calibration object, updated in place
    star_dict,      \* JD -> star list
    pool,           \* star_dict as built, before the sampling
    pc,             \* position in autoCheckFit
    ri,             \* index of the loop over radius_list
    max_radius,     \* loop variable of the loop over radius_list
    ret,            \* value returned by autoCheckFit
    ntrial,         \* cost evaluations made by the running minimizer
    res,            \* result of the last call of scipy.optimize.minimize
    last_eval,      \* the call of matchStarsResiduals made by the last step, if any
    eval_dicts,     \* the star dictionaries given to matchStarsResiduals
    calls,          \* evaluator (with count) and minimizer calls, in order
    n_pass,         \* number of initial checks passed
    n_conv,         \* number of minimizer calls that converged
    pp_accepted,    \* the input calibration with every accepted result applied
    run,            \* 1 in the first call of autoCheckFit, 2 in the second
    samples,        \* the sample selected by each call
    first_eval,     \* the earlier of two direct calls of matchStarsResiduals
    exit,           \* self.exit of a FieldSolver or VideoRecorder: the Event is set
    children,       \* the subprocesses started with subprocess.Popen, in order
    subproc,        \* the local p of run(): index in children, 0 before Popen
    proc,           \* position of the Process in run()
    stop_pc,        \* position of the parent in stopSolver or stopCapture
    stop_i,         \* the loop variable i of stopSolver or stopCapture
    queue,          \* the result queue of the FieldSolver
    tmp_dir,        \* the video files of TMP_VIDEO_DIR
    fresh,          \* the files of tmp_dir modified in the last 5 seconds
    data_dir,       \* the video files of the data directory, (name, content)
    n_segments,     \* number of video files written so far
    night_dir,      \* the directory given to makeFlat: listing and file contents
    nostars,        \* argument nostars of makeFlat
    flat_config,    \* the config object given to makeFlat
    calstars_file,  \* makeFlat: the loop variable of the CALSTARS search
    ff_list_good,   \* makeFlat: the FF files used for the flat
    flat_i,         \* makeFlat: the loop variable i, counted from 1
    flat_c,         \* makeFlat: the counter c of the images loaded
    ff_avg_list,    \* makeFlat: the images loaded and not yet combined
    median_list,    \* makeFlat: the medians computed
    flat_pc,        \* position in makeFlat
    flat_ret,       \* what makeFlat returned or raised
    ff_stars,       \* ExtractStars: the stars that extractStars finds in each FF file
    extraction_list,\* ExtractStars: the FF files to process
    queued,         \* ExtractStars: the jobs of the workpool that are not finished
    results,        \* ExtractStars: the results of the workpool, as finished
    loop_ff_name,   \* ExtractStars: the variable ff_name of the driver
    star_list,      \* ExtractStars: the list written to the CALSTARS file
    calstars_out,   \* ExtractStars: the CALSTARS file written
    es_pc,          \* ExtractStars: position in the driver
    parser,         \* ConfigReader: the options of the configuration file
    cap_config,     \* ConfigReader: the capture fields of the Config object
    cap_pc          \* ConfigReader: before or after parseCapture

\* The state of a Process object, of its parent and of its subprocesses
process == <<exit, children, subproc, proc, stop_pc, stop_i, queue>>

\* The directories of the VideoRecorder
videos == <<tmp_dir, fresh, data_dir, n_segments>>

\* The state of a call of makeFlat
flat == <<night_dir, nostars, flat_config, calstars_file, ff_list_good, flat_i, flat_c,
          ff_avg_list, median_list, flat_pc, flat_ret>>

\* The state of the driver of ExtractStars
extraction == <<ff_stars, extraction_list, queued, results, loop_ff_name, star_list,
                calstars_out, es_pc>>

\* The state of ConfigReader.parseCapture
capture == <<parser, cap_config, cap_pc>>

\* State that autoCheckFit neither reads nor writes
outside == <<first_eval, process, videos, flat, extraction, capture>>

vars == <<config, calstars_list, platepar_in, catalog_stars, disk, platepar, star_dict, pool, pc, ri,
          max_radius, ret, ntrial, res, last_eval, eval_dicts, calls, n_pass,
          n_conv, pp_accepted, run, samples, outside>>

inputs == <<config, calstars_list, platepar_in, catalog_stars, outside>>

(***************************************************************************)
(* Arithmetic helpers                                                      *)
(***************************************************************************)
Isqrt(n) == CHOOSE r \in 0..(X_RES + Y_RES + FOV_W) : r * r <= n /\ n < (r + 1) * (r + 1)

RECURSIVE Gcd(_, _)
Gcd(a, b) == IF b = 0 THEN a ELSE Gcd(b, a % b)

\* The largest m >= 1 with m * m dividing n (factors below p already removed)
RECURSIVE SquarePart(_, _)
SquarePart(n, p) ==
    IF p * p > n THEN 1
    ELSE IF n % (p * p) = 0 THEN p * SquarePart(n \div (p * p), p)
         ELSE SquarePart(n, p + 1)

\* The float (num/den)*sqrt(rad) as an exact number in lowest terms, den > 0
\* and rad squarefree
Surd(num, den, rad) ==
    IF num = 0 THEN [num |-> 0, den |-> 1, rad |-> 1]
    ELSE LET g == Gcd(num, den)
         IN [num |-> num \div g, den |-> den \div g, rad |-> rad]

\* np.sqrt of an integer
SqrtOf(n) ==
    IF n = 0 THEN Surd(0, 1, 1)
    ELSE LET m == SquarePart(n, 2) IN Surd(m, 1, n \div (m * m))

\* x*y
Times(x, y) ==
    IF x.num = 0 \/ y.num = 0 THEN Surd(0, 1, 1)
    ELSE LET g1 == Gcd(x.num, y.den)
             g2 == Gcd(y.num, x.den)
             r == x.rad * y.rad
             m == SquarePart(r, 2)
         IN Surd((x.num \div g1) * (y.num \div g2) * m,
                 (x.den \div g2) * (y.den \div g1), r \div (m * m))

\* x**2
Square(x) == Times(x, x)

\* 1.0/x
Inverse(x) == Surd(x.den, x.num * x.rad, x.rad)

RECURSIVE SumSeq(_)
SumSeq(s) ==
    IF s = <<>> THEN 0
    ELSE IF Len(s) = 1 THEN s[1]
    ELSE LET half == Len(s) \div 2
         IN SumSeq(SubSeq(s, 1, half)) + SumSeq(SubSeq(s, half + 1, Len(s)))

\* The keys of a dictionary in ascending order (deterministic iteration)
RECURSIVE SortedKeys(_)
SortedKeys(S) ==
    IF S = {} THEN <<>>
    ELSE LET m == CHOOSE k \in S : \A j \in S : k <= j
         IN <<m>> \o SortedKeys(S \ {m})

(***************************************************************************)
(* External collaborators of the evaluator                                 *)
(***************************************************************************)
\* raDecToCorrectedXYPP: catalog (ra, dec) -> image (x, y) under a platepar.
\* The projection is a translation by the pointing and by the constant term
\* of each distortion polynomial.
raDecToCorrectedXYPP(ra, dec, jd, pp) ==
    [x |-> ra + pp.RA_d + pp.x_poly[1], y |-> dec + pp.dec_d + pp.y_poly[1]]

\* XY2CorrectedRADecPP: image (x, y) -> (ra, dec), the inverse translation.
XY2CorrectedRADecPP(jd, x, y, pp) ==
    [ra |-> x - pp.RA_d - pp.x_poly[1], dec |-> y - pp.dec_d - pp.y_poly[1]]

\* subsetCatalog: indices of the catalog stars within the radius of the
\* centre and not fainter than the magnitude limit, in catalog order.
subsetCatalog(catalog, ra_c, dec_c, radius, mag_limit) ==
    SelectSeq(catalog, LAMBDA s :
        /\ (s[1] - ra_c) * (s[1] - ra_c) + (s[2] - dec_c) * (s[2] - dec_c) <= radius * radius
        /\ s[3] <= mag_limit)

(***************************************************************************)
(* matchStars: nearest in-bounds catalog star of every image star          *)
(***************************************************************************)
\* Squared distance between image star `star` (Y, X, ..) and catalog star k
Dist2(star, cat_x, cat_y, k) ==
    (star[2] - cat_x[k]) * (star[2] - cat_x[k]) + (star[1] - cat_y[k]) * (star[1] - cat_y[k])

\* The distance between image star `star` and catalog star k, in pixels:
\* the square root of Dist2, taken after the common factor g of the offsets
Distance(star, cat_x, cat_y, k) ==
    LET dx == IF star[2] >= cat_x[k] THEN star[2] - cat_x[k] ELSE cat_x[k] - star[2]
        dy == IF star[1] >= cat_y[k] THEN star[1] - cat_y[k] ELSE cat_y[k] - star[1]
        g == Gcd(dx, dy)
    IN IF g = 0 THEN Surd(0, 1, 1)
       ELSE Times(Surd(g, UNIT, 1), SqrtOf((dx \div g) * (dx \div g) + (dy \div g) * (dy \div g)))

\* Scan of the in-bounds catalog stars good[j..] for the best match of one
\* image star; best = <<catalog index, squared distance>>, index 0 = none.
\* A strictly smaller distance replaces the best, so the first minimum wins.
RECURSIVE BestMatch(_, _, _, _, _, _)
BestMatch(star, cat_x, cat_y, good, j, best) ==
    IF j > Len(good) THEN best
    ELSE LET k == good[j]
             d2 == Dist2(star, cat_x, cat_y, k)
         IN IF best[1] = 0 \/ d2 < best[2]
            THEN BestMatch(star, cat_x, cat_y, good, j + 1, <<k, d2>>)
            ELSE BestMatch(star, cat_x, cat_y, good, j + 1, best)

\* The pairs of the image stars i, i + 1, ..., in the order of the image stars
MatchFrom(stars_list, cat_x, cat_y, good, max_r, i) ==
    LET best(j) == BestMatch(stars_list[j], cat_x, cat_y, good, 1, <<0, 0>>)
        matched == SelectSeq([j \in 1..Len(stars_list) |-> j],
                             LAMBDA j : /\ j >= i
                                        /\ best(j)[1] # 0
                                        /\ best(j)[2] < max_r * max_r)
    IN [q \in 1..Len(matched) |->
           <<matched[q], best(matched[q])[1],
             Distance(stars_list[matched[q]], cat_x, cat_y, best(matched[q])[1])>>]

\* List of (image star index, catalog star index, distance)
matchStars(stars_list, cat_x, cat_y, cat_good_indices, max_r) ==
    MatchFrom(stars_list, cat_x, cat_y, cat_good_indices, max_r, 1)

(***************************************************************************)
(* matchStarsResiduals                                                     *)
(***************************************************************************)
\* Radius of the field of view: half of the diagonal
FovRadius(pp) ==
    LET fov_w == FOV_W \div pp.F_scale
        fov_h == FOV_H \div pp.F_scale
    IN Isqrt((fov_w \div 2) * (fov_w \div 2) + (fov_h \div 2) * (fov_h \div 2))

\* Lines 76-92: the catalog stars around the centre of the image taken at jd,
\* in image coordinates
CatalogXY(pp, catalog, jd) ==
    LET c == XY2CorrectedRADecPP(jd, pp.X_res \div 2, pp.Y_res \div 2, pp)
        extracted == subsetCatalog(catalog, c.ra, c.dec, FovRadius(pp), config.catalog_mag_limit)
    IN [cat_x_array |-> [k \in 1..Len(extracted) |->
                            raDecToCorrectedXYPP(extracted[k][1], extracted[k][2], jd, pp).x],
        cat_y_array |-> [k \in 1..Len(extracted) |->
                            raDecToCorrectedXYPP(extracted[k][1], extracted[k][2], jd, pp).y]]

\* Variant: every catalog star of the subset is a candidate
CatGoodIndices_All(pp, cat) == [k \in 1..Len(cat.cat_x_array) |-> k]

\* Variant: the candidates in descending order of their index
CatGoodIndices_Descending(pp, cat) ==
    LET InBounds(k) == /\ cat.cat_x_array[k] >= 0 /\ cat.cat_x_array[k] < pp.X_res
                       /\ cat.cat_y_array[k] >= 0 /\ cat.cat_y_array[k] < pp.Y_res
        good == SelectSeq([k \in 1..Len(cat.cat_x_array) |-> k], InBounds)
    IN [j \in 1..Len(good) |-> good[Len(good) + 1 - j]]

\* Lines 95-98: the indices of the catalog stars inside the image, ascending
CatGoodIndices(pp, cat) ==
    LET InBounds(k) == /\ cat.cat_x_array[k] >= 0 /\ cat.cat_x_array[k] < pp.X_res
                       /\ cat.cat_y_array[k] >= 0 /\ cat.cat_y_array[k] < pp.Y_res
    IN SelectSeq([k \in 1..Len(cat.cat_x_array) |-> k], InBounds)

\* Variant: a catalog star is paired with the first image star that claims it
MatchImage_Exclusive(pp, catalog, stars_list, jd, max_r) ==
    LET cat == CatalogXY(pp, catalog, jd)
        all == matchStars(stars_list, cat.cat_x_array, cat.cat_y_array,
                          CatGoodIndices(pp, cat), max_r)
        First(p) == \A q \in 1..Len(all) : all[q][2] = p[2] => all[q][1] >= p[1]
    IN SelectSeq(all, First)

\* The matched pairs of the image taken at jd (body of the loop over star_dict)
MatchImage(pp, catalog, stars_list, jd, max_r) ==
    LET cat == CatalogXY(pp, catalog, jd)
    IN matchStars(stars_list, cat.cat_x_array, cat.cat_y_array, CatGoodIndices(pp, cat), max_r)

\* Variant: the pairs of every image are pooled
RECURSIVE GlobalDistList_NoThreshold(_, _, _, _, _, _)
GlobalDistList_NoThreshold(pp, catalog, sd, jds, max_r, min_matched_stars) ==
    IF jds = <<>> THEN <<>>
    ELSE LET matched_indices == MatchImage(pp, catalog, sd[Head(jds)], Head(jds), max_r)
             rest == GlobalDistList_NoThreshold(pp, catalog, sd, Tail(jds), max_r,
                                                min_matched_stars)
         IN [p \in 1..Len(matched_indices) |-> matched_indices[p][3]] \o rest

\* Variant: the threshold comparison is inverted
RECURSIVE GlobalDistList_SkipsLarge(_, _, _, _, _, _)
GlobalDistList_SkipsLarge(pp, catalog, sd, jds, max_r, min_matched_stars) ==
    IF jds = <<>> THEN <<>>
    ELSE LET matched_indices == MatchImage(pp, catalog, sd[Head(jds)], Head(jds), max_r)
             rest == GlobalDistList_SkipsLarge(pp, catalog, sd, Tail(jds), max_r,
                                               min_matched_stars)
         IN IF Len(matched_indices) > min_matched_stars
            THEN rest
            ELSE [p \in 1..Len(matched_indices) |-> matched_indices[p][3]] \o rest

\* The distances of the images that reach min_matched_stars pairs
RECURSIVE GlobalDistList(_, _, _, _, _, _)
GlobalDistList(pp, catalog, sd, jds, max_r, min_matched_stars) ==
    IF jds = <<>> THEN <<>>
    ELSE LET matched_indices == MatchImage(pp, catalog, sd[Head(jds)], Head(jds), max_r)
             rest == GlobalDistList(pp, catalog, sd, Tail(jds), max_r, min_matched_stars)
         IN IF Len(matched_indices) < min_matched_stars
            THEN rest
            ELSE [p \in 1..Len(matched_indices) |-> matched_indices[p][3]] \o rest

\* A float constant
ConstCost(v) == Surd(v, 1, 1)

\* The radicand shared by the distances of a list
RECURSIVE Radicand(_)
Radicand(dist_list) ==
    IF dist_list = <<>> THEN 1
    ELSE IF Head(dist_list).num # 0 THEN Head(dist_list).rad ELSE Radicand(Tail(dist_list))

\* dist_list[j] = (num/den)*sqrt(rad) with den dividing UNIT: its numerator over UNIT
Over(d) == d.num * (UNIT \div d.den)

\* np.mean of a non-empty list of distances
Mean(dist_list) ==
    Surd(SumSeq([j \in 1..Len(dist_list) |-> Over(dist_list[j])]),
         UNIT * Len(dist_list), Radicand(dist_list))

\* Variant: the cost that weights the number of matched stars only
Residuals_CountOnly(global_dist_list, ret_nmatch) ==
    LET n_matched == Len(global_dist_list)
        avg_dist == Mean(global_dist_list)
        cost == Inverse(SqrtOf(n_matched + 1))
    IN IF n_matched = 0
       THEN [shape |-> "scalar", cost |-> ConstCost(SENTINEL)]
       ELSE IF ret_nmatch
            THEN [shape |-> "triple", n_matched |-> n_matched, avg_dist |-> avg_dist,
                  cost |-> cost]
            ELSE [shape |-> "scalar", cost |-> cost]

\* Variant: no test of n_matched, an empty list has mean 0
Residuals_NoSentinel(global_dist_list, ret_nmatch) ==
    LET n_matched == Len(global_dist_list)
        avg_dist == IF n_matched = 0 THEN Surd(0, 1, 1) ELSE Mean(global_dist_list)
        cost == Times(Square(avg_dist), Inverse(SqrtOf(n_matched + 1)))
    IN IF ret_nmatch /\ n_matched # 0
       THEN [shape |-> "triple", n_matched |-> n_matched, avg_dist |-> avg_dist,
             cost |-> cost]
       ELSE [shape |-> "scalar", cost |-> cost]

\* Lines 201-223: the value returned for the pooled distances
Residuals(global_dist_list, ret_nmatch) ==
    LET n_matched == Len(global_dist_list)
        avg_dist == Mean(global_dist_list)
        cost == Times(Square(avg_dist), Inverse(SqrtOf(n_matched + 1)))
    IN IF n_matched = 0
       THEN [shape |-> "scalar", cost |-> ConstCost(SENTINEL)]
       ELSE IF ret_nmatch
            THEN [shape |-> "triple", n_matched |-> n_matched, avg_dist |-> avg_dist,
                  cost |-> cost]
            ELSE [shape |-> "scalar", cost |-> cost]

matchStarsResiduals(pp, catalog, sd, max_r, min_matched_stars, ret_nmatch) ==
    Residuals(GlobalDistList(pp, catalog, sd, SortedKeys(DOMAIN sd), max_r,
                             min_matched_stars), ret_nmatch)

NoRet == [returned |-> FALSE]
NoEval == [called |-> FALSE]
NoRes == [returned |-> FALSE]
EmptyDict == [k \in {} |-> <<>>]

\* FFfile.getMiddleTimeFF and date2JD: the Julian date of an FF file
FFtoJD(ff_name) == 100 + ff_name

\* Variant: an image needs more than ff_min_stars stars
RECURSIVE BuildStarDict_Strict(_, _, _)
BuildStarDict_Strict(cl, i, cfg) ==
    IF i > Len(cl) THEN EmptyDict
    ELSE LET rest == BuildStarDict_Strict(cl, i + 1, cfg)
             ff_name == cl[i][1]
             stars_list == cl[i][2]
             overridden == \E j \in (i + 1)..Len(cl) : cl[j][1] = ff_name
         IN IF ~overridden /\ Len(stars_list) > cfg.ff_min_stars
            THEN [jd \in DOMAIN rest \cup {FFtoJD(ff_name)} |->
                     IF jd = FFtoJD(ff_name) THEN stars_list ELSE rest[jd]]
            ELSE rest

\* Lines 287-311: calstars_list as a dictionary, then the images with at least
\* ff_min_stars stars keyed by their Julian date
RECURSIVE BuildStarDict(_, _, _)
BuildStarDict(cl, i, cfg) ==
    IF i > Len(cl) THEN EmptyDict
    ELSE LET rest == BuildStarDict(cl, i + 1, cfg)
             ff_name == cl[i][1]
             stars_list == cl[i][2]
             overridden == \E j \in (i + 1)..Len(cl) : cl[j][1] = ff_name
         IN IF ~overridden /\ Len(stars_list) >= cfg.ff_min_stars
            THEN [jd \in DOMAIN rest \cup {FFtoJD(ff_name)} |->
                     IF jd = FFtoJD(ff_name) THEN stars_list ELSE rest[jd]]
            ELSE rest

\* Line 327
RECURSIVE TotalCalstars(_, _)
TotalCalstars(sd, keys) ==
    IF keys = {} THEN 0
    ELSE LET k == CHOOSE k \in keys : TRUE
         IN Len(sd[k]) + TotalCalstars(sd, keys \ {k})

\* Variant: k draws with replacement, which may repeat a key
RandomSample_WithReplacement(sd, k) ==
    { S \in SUBSET DOMAIN sd : Cardinality(S) <= k /\ (k > 0 => Cardinality(S) >= 1) }

\* Variant: no selection, every key is kept
RandomSample_All(sd, k) == { DOMAIN sd }

\* random.sample(star_dict, k): the possible selections of k distinct keys
\* (a dictionary population is sampled by its keys, as Python 2 does)
RandomSample(sd, k) == { S \in SUBSET DOMAIN sd : Cardinality(S) = k }

\* The calibrations given to autoCheckFit: pointing 2 px off in X
Platepars ==
    [RA_d : {8}, dec_d : {0}, pos_angle_ref : PosVals, F_scale : ScaleVals,
     x_poly : { <<0, 0>> }, y_poly : { <<0, 0>> }, X_res : {X_RES}, Y_res : {Y_RES}]

Configs ==
    [ff_min_stars : 1..2, calstars_files_N : 1..MaxFiles, calstars_min_stars : {1, 3},
     min_matched_stars : 1..2, catalog_mag_limit : {4}]

CalstarsLists ==
    { cl \in [1..MaxFiles -> (1..MaxFiles) \X StarLists] : \A i \in 1..MaxFiles : cl[i][1] = i }

\* A file of the night directory: absent, or holding a platepar
NoFile == [exists |-> FALSE]

File(pp) == [exists |-> TRUE, platepar |-> pp]

\* Nothing else of the repository is running
NoProcess ==
    /\ exit = FALSE
    /\ children = <<>>
    /\ subproc = 0
    /\ proc = "unstarted"
    /\ stop_pc = "idle"
    /\ stop_i = 0
    /\ queue = <<>>

NoVideos ==
    /\ tmp_dir = {}
    /\ fresh = {}
    /\ data_dir = {}
    /\ n_segments = 0

\* The value None as a file name
None == [calstars |-> FALSE, txt |-> FALSE, ff |-> -1]

\* The local variables of makeFlat before its first statement
FlatLocals ==
    /\ calstars_file = None
    /\ ff_list_good = <<>>
    /\ flat_i = 0
    /\ flat_c = 0
    /\ ff_avg_list = <<>>
    /\ median_list = <<>>
    /\ flat_ret = [kind |-> "running"]

NoFlat ==
    /\ night_dir = [listing |-> <<>>, calstars |-> <<>>, corrupted |-> {}]
    /\ nostars = FALSE
    /\ flat_config = [ff_min_stars |-> 1, flat_min_imgs |-> 1]
    /\ FlatLocals
    /\ flat_pc = "idle"

\* The variables of the driver of ExtractStars before the first loop
ExtractionLocals ==
    /\ extraction_list = <<>>
    /\ queued = {}
    /\ results = <<>>
    /\ loop_ff_name = 0
    /\ star_list = <<>>
    /\ calstars_out = [kind |-> "none"]

NoExtraction ==
    /\ ff_stars = <<>>
    /\ ExtractionLocals
    /\ es_pc = "idle"

\* parser.has_option(section, name) is False
Absent == -1000

\* Config.__init__, lines 60-63 and 69-72
ConfigDefaults ==
    [width |-> 1280, height |-> 720, width_device |-> 1280, height_device |-> 720,
     roi_left |-> -1, roi_right |-> -1, roi_up |-> -1, roi_down |-> -1]

NoCapture ==
    /\ parser = [has_section |-> FALSE, width |-> Absent, height |-> Absent,
                 roi_left |-> Absent, roi_right |-> Absent, roi_up |-> Absent,
                 roi_down |-> Absent]
    /\ cap_config = ConfigDefaults
    /\ cap_pc = "idle"

Idle ==
    /\ first_eval = NoEval
    /\ NoProcess
    /\ NoVideos
    /\ NoFlat
    /\ NoExtraction
    /\ NoCapture

\* State at the entry of autoCheckFit: the platepar was read from its file
\* (line 458) and `old` is the file <platepar_name>.old
Entry(cfg, pp, cl, old, r, smp) ==
    /\ config = cfg
    /\ calstars_list = cl
    /\ platepar_in = pp
    /\ catalog_stars = readBSC
    /\ disk = [platepar |-> File(pp), old |-> old]
    /\ platepar = pp
    /\ star_dict = EmptyDict
    /\ pool = EmptyDict
    /\ pc = "start"
    /\ ri = 0
    /\ max_radius = 0
    /\ ret = NoRet
    /\ ntrial = 0
    /\ res = NoRes
    /\ last_eval = NoEval
    /\ eval_dicts = {}
    /\ calls = <<>>
    /\ n_pass = 0
    /\ n_conv = 0
    /\ pp_accepted = pp
    /\ run = r
    /\ samples = smp
    /\ Idle

Init ==
    \E cfg \in Configs, pp \in Platepars, cl \in CalstarsLists :
        Entry(cfg, pp, cl, NoFile, 1, <<>>)

(***************************************************************************)
(* autoCheckFit                                                            *)
(***************************************************************************)
\* `return pp, success`
Return(pp, success) ==
    /\ ret' = [returned |-> TRUE, platepar |-> pp, success |-> success]
    /\ pc' = IF success THEN "done" ELSE "aborted"

\* A call matchStarsResiduals(pp, catalog_stars, star_dict, max_radius,
\* config.min_matched_stars, ret_nmatch) made by `kind` with `base` as the
\* calibration held by the controller
Evaluate(kind, base, pp, ret_nmatch) ==
    /\ last_eval' =
          [called |-> TRUE, kind |-> kind, base |-> base, pp |-> pp, sd |-> star_dict,
           max_radius |-> max_radius, ret_nmatch |-> ret_nmatch,
           n_matched |-> Len(GlobalDistList(pp, catalog_stars, star_dict,
                                            SortedKeys(DOMAIN star_dict), max_radius,
                                            config.min_matched_stars)),
           result |-> matchStarsResiduals(pp, catalog_stars, star_dict, max_radius,
                                          config.min_matched_stars, ret_nmatch)]
    /\ eval_dicts' = eval_dicts \cup {star_dict}

\* Lines 287-311: the images with enough stars
BuildPool ==
    /\ pc = "start"
    /\ star_dict' = BuildStarDict(calstars_list, 1, config)
    /\ pool' = star_dict'
    /\ pc' = "files"
    /\ UNCHANGED <<inputs, disk, platepar, ri, max_radius, ret, ntrial, res, last_eval, eval_dicts,
                   calls, n_pass, n_conv, pp_accepted, run, samples>>

\* Lines 315-317
NotEnoughFiles ==
    /\ pc = "files"
    /\ Cardinality(DOMAIN star_dict) < config.calstars_files_N
    /\ Return(platepar, FALSE)
    /\ UNCHANGED <<inputs, disk, platepar, star_dict, pool, ri, max_radius, ntrial, res, last_eval,
                   eval_dicts, calls, n_pass, n_conv, pp_accepted, run,
                   samples>>

\* Lines 319-323
SampleFiles ==
    /\ pc = "files"
    /\ Cardinality(DOMAIN star_dict) >= config.calstars_files_N
    /\ \E rand_keys \in RandomSample(star_dict, config.calstars_files_N) :
          star_dict' = [key \in rand_keys |-> star_dict[key]]
    /\ samples' = Append(samples, star_dict')
    /\ pc' = "stars"
    /\ UNCHANGED <<inputs, disk, platepar, pool, ri, max_radius, ret, ntrial, res, last_eval,
                   eval_dicts, calls, n_pass, n_conv, pp_accepted, run>>

\* Lines 327-332
NotEnoughStars ==
    /\ pc = "stars"
    /\ TotalCalstars(star_dict, DOMAIN star_dict) < config.calstars_min_stars
    /\ Return(platepar, FALSE)
    /\ UNCHANGED <<inputs, disk, platepar, star_dict, pool, ri, max_radius, ntrial, res, last_eval,
                   eval_dicts, calls, n_pass, n_conv, pp_accepted, run,
                   samples>>

\* Variant: the loop is entered without the test of calstars_min_stars
StartRadiusLoop_NoStarCount ==
    /\ pc = "stars"
    /\ ri' = 1
    /\ max_radius' = radius_list[1]
    /\ pc' = "check"
    /\ UNCHANGED <<inputs, disk, platepar, star_dict, pool, ret, ntrial, res, last_eval,
                   eval_dicts, calls, n_pass, n_conv, pp_accepted, run, samples>>

\* Lines 336-338: the loop over radius_list is entered
StartRadiusLoop ==
    /\ pc = "stars"
    /\ TotalCalstars(star_dict, DOMAIN star_dict) >= config.calstars_min_stars
    /\ ri' = 1
    /\ max_radius' = radius_list[1]
    /\ pc' = "check"
    /\ UNCHANGED <<inputs, disk, platepar, star_dict, pool, ret, ntrial, res, last_eval, eval_dicts,
                   calls, n_pass, n_conv, pp_accepted, run, samples>>

\* Lines 341-342 when the evaluator returns the bare sentinel: the unpacking
\* into n_matched, avg_dist, cost raises TypeError
InitialCheckUnpackError ==
    /\ pc = "check"
    /\ Evaluate("check", platepar, platepar, TRUE)
    /\ last_eval'.result.shape = "scalar"
    /\ calls' = Append(calls, <<"check", max_radius>>)
    /\ pc' = "raised"
    /\ UNCHANGED <<inputs, disk, platepar, star_dict, pool, ri, max_radius, ret, ntrial, res, n_pass,
                   n_conv, pp_accepted, run, samples>>

\* Lines 341-354: too few stars matched by the calibration
InitialCheckPoor ==
    /\ pc = "check"
    /\ Evaluate("check", platepar, platepar, TRUE)
    /\ last_eval'.result.shape = "triple"
    /\ last_eval'.result.n_matched < config.calstars_files_N
    /\ calls' = Append(calls, <<"check", max_radius>>)
    /\ Return(platepar, FALSE)
    /\ UNCHANGED <<inputs, disk, platepar, star_dict, pool, ri, max_radius, ntrial, res, n_pass,
                   n_conv, pp_accepted, run, samples>>

\* Lines 341-358: the check passes
InitialCheckPass ==
    /\ pc = "check"
    /\ Evaluate("check", platepar, platepar, TRUE)
    /\ last_eval'.result.shape = "triple"
    /\ ~(last_eval'.result.n_matched < config.calstars_files_N)
    /\ calls' = Append(calls, <<"check", max_radius>>)
    /\ n_pass' = n_pass + 1
    /\ ntrial' = 0
    /\ pc' = "astro"
    /\ UNCHANGED <<inputs, disk, platepar, star_dict, pool, ri, max_radius, ret, res, n_conv,
                   pp_accepted, run, samples>>

\* _calcImageResidualsAstro: the trial parameters go into a copy
SetAstro(pp, params) ==
    [pp EXCEPT !.RA_d = params[1], !.dec_d = params[2], !.pos_angle_ref = params[3],
               !.F_scale = params[4]]

\* _calcImageResidualsDistorsion
SetDistorsion(pp, params, dimension) ==
    IF dimension = "x" THEN [pp EXCEPT !.x_poly = params] ELSE [pp EXCEPT !.y_poly = params]

\* Variant: the trial parameters are set on the calibration itself
Trial_NoCopy(kind, p0, pp) ==
    /\ pc = kind
    /\ ntrial < MaxTrials
    /\ ntrial = 0 => pp = p0
    /\ Evaluate(kind, platepar, pp, FALSE)
    /\ platepar' = pp
    /\ ntrial' = ntrial + 1
    /\ calls' = IF ntrial = 0 THEN Append(calls, <<kind, max_radius>>) ELSE calls
    /\ UNCHANGED <<inputs, disk, star_dict, pool, pc, ri, max_radius, ret, res,
                   n_pass, n_conv, pp_accepted, run, samples>>

\* A cost evaluation requested by the minimizer; the first one is at the
\* initial parameters.  _calcImageResidualsAstro and
\* _calcImageResidualsDistorsion set the trial parameters on a deep copy.
Trial(kind, p0, pp) ==
    /\ pc = kind
    /\ ntrial < MaxTrials
    /\ ntrial = 0 => pp = p0
    /\ Evaluate(kind, platepar, pp, FALSE)
    /\ ntrial' = ntrial + 1
    /\ calls' = IF ntrial = 0 THEN Append(calls, <<kind, max_radius>>) ELSE calls
    /\ UNCHANGED <<inputs, disk, platepar, star_dict, pool, pc, ri, max_radius, ret, res,
                   n_pass, n_conv, pp_accepted, run, samples>>

\* Lines 358-362
AstroTrial ==
    \E params \in AstroParams :
        Trial("astro", platepar, SetAstro(platepar, params))

\* Lines 384-386
XTrial ==
    \E params \in XPolyVals :
        Trial("x", platepar, SetDistorsion(platepar, params, "x"))

\* Lines 400-402
YTrial ==
    \E params \in YPolyVals :
        Trial("y", platepar, SetDistorsion(platepar, params, "y"))

\* The minimizer returns res with res.success false:
\* `if not res.success: return platepar, False`
FitFailed(kind, xs) ==
    /\ pc = kind
    /\ ntrial >= 1
    /\ \E x \in xs : res' = [returned |-> TRUE, kind |-> kind, success |-> FALSE, x |-> x]
    /\ Return(platepar, FALSE)
    /\ last_eval' = NoEval
    /\ UNCHANGED <<inputs, disk, platepar, star_dict, pool, ri, max_radius, ntrial, eval_dicts,
                   calls, n_pass, n_conv, pp_accepted, run, samples>>

\* Lines 367-368
AstroFailed == FitFailed("astro", AstroParams)

\* Variant: the result of the X fit is used whether or not the fit converged
XFailed_NoReturn ==
    /\ pc = "x"
    /\ ntrial >= 1
    /\ \E x \in XPolyVals :
          /\ res' = [returned |-> TRUE, kind |-> "x", success |-> FALSE, x |-> x]
          /\ platepar' = [platepar EXCEPT !.x_poly = x]
    /\ ntrial' = 0
    /\ pc' = "y"
    /\ last_eval' = NoEval
    /\ UNCHANGED <<inputs, disk, star_dict, pool, ri, max_radius, ret, eval_dicts, calls, n_pass,
                   n_conv, pp_accepted, run, samples>>

\* Lines 391-392
XFailed == FitFailed("x", XPolyVals)

\* Variant: a Y fit that did not converge is taken as the last step of the radius
YFailed_NoReturn ==
    /\ pc = "y"
    /\ ntrial >= 1
    /\ \E x \in YPolyVals :
          res' = [returned |-> TRUE, kind |-> "y", success |-> FALSE, x |-> x]
    /\ ntrial' = 0
    /\ IF ri < Len(radius_list)
       THEN /\ ri' = ri + 1
            /\ max_radius' = radius_list[ri + 1]
            /\ pc' = "check"
       ELSE /\ pc' = "final"
            /\ UNCHANGED <<ri, max_radius>>
    /\ last_eval' = NoEval
    /\ UNCHANGED <<inputs, disk, platepar, star_dict, pool, ret, eval_dicts, calls, n_pass,
                   n_conv, pp_accepted, run, samples>>

\* Lines 407-408
YFailed == FitFailed("y", YPolyVals)

\* Lines 371-378: the result of the fit goes into the calibration
AstroConverged ==
    /\ pc = "astro"
    /\ ntrial >= 1
    /\ \E x \in AstroParams :
          /\ res' = [returned |-> TRUE, kind |-> "astro", success |-> TRUE, x |-> x]
          /\ platepar' = SetAstro(platepar, x)
          /\ pp_accepted' = SetAstro(pp_accepted, x)
    /\ n_conv' = n_conv + 1
    /\ ntrial' = 0
    /\ pc' = "x"
    /\ last_eval' = NoEval
    /\ UNCHANGED <<inputs, disk, star_dict, pool, ri, max_radius, ret, eval_dicts,
                   calls, n_pass, run, samples>>

\* Variant: the result of the X fit is stored as the Y coefficients
XConverged_WritesY ==
    /\ pc = "x"
    /\ ntrial >= 1
    /\ \E x \in XPolyVals :
          /\ res' = [returned |-> TRUE, kind |-> "x", success |-> TRUE, x |-> x]
          /\ platepar' = [platepar EXCEPT !.y_poly = x]
          /\ pp_accepted' = [pp_accepted EXCEPT !.y_poly = x]
    /\ n_conv' = n_conv + 1
    /\ ntrial' = 0
    /\ pc' = "y"
    /\ last_eval' = NoEval
    /\ UNCHANGED <<inputs, disk, star_dict, pool, ri, max_radius, ret, eval_dicts,
                   calls, n_pass, run, samples>>

\* Lines 394-395
XConverged ==
    /\ pc = "x"
    /\ ntrial >= 1
    /\ \E x \in XPolyVals :
          /\ res' = [returned |-> TRUE, kind |-> "x", success |-> TRUE, x |-> x]
          /\ platepar' = [platepar EXCEPT !.x_poly = x]
          /\ pp_accepted' = [pp_accepted EXCEPT !.x_poly = x]
    /\ n_conv' = n_conv + 1
    /\ ntrial' = 0
    /\ pc' = "y"
    /\ last_eval' = NoEval
    /\ UNCHANGED <<inputs, disk, star_dict, pool, ri, max_radius, ret, eval_dicts,
                   calls, n_pass, run, samples>>

\* Lines 410-411 and the next iteration of the loop of line 338
YConverged ==
    /\ pc = "y"
    /\ ntrial >= 1
    /\ \E x \in YPolyVals :
          /\ res' = [returned |-> TRUE, kind |-> "y", success |-> TRUE, x |-> x]
          /\ platepar' = [platepar EXCEPT !.y_poly = x]
          /\ pp_accepted' = [pp_accepted EXCEPT !.y_poly = x]
    /\ n_conv' = n_conv + 1
    /\ ntrial' = 0
    /\ IF ri < Len(radius_list)
       THEN /\ ri' = ri + 1
            /\ max_radius' = radius_list[ri + 1]
            /\ pc' = "check"
       ELSE /\ pc' = "final"
            /\ UNCHANGED <<ri, max_radius>>
    /\ last_eval' = NoEval
    /\ UNCHANGED <<inputs, disk, star_dict, pool, ret, eval_dicts, calls, n_pass, run, samples>>

\* Lines 415-416 when the evaluator returns the bare sentinel
FinalStatsUnpackError ==
    /\ pc = "final"
    /\ Evaluate("final", platepar, platepar, TRUE)
    /\ last_eval'.result.shape = "scalar"
    /\ calls' = Append(calls, <<"final", max_radius>>)
    /\ pc' = "raised"
    /\ UNCHANGED <<inputs, disk, platepar, star_dict, pool, ri, max_radius, ret, ntrial, res, n_pass,
                   n_conv, pp_accepted, run, samples>>

\* Lines 415-422
FinalStats ==
    /\ pc = "final"
    /\ Evaluate("final", platepar, platepar, TRUE)
    /\ last_eval'.result.shape = "triple"
    /\ calls' = Append(calls, <<"final", max_radius>>)
    /\ Return(platepar, TRUE)
    /\ UNCHANGED <<inputs, disk, platepar, star_dict, pool, ri, max_radius, ntrial, res, n_pass,
                   n_conv, pp_accepted, run, samples>>

\* Variant: the platepar file is replaced whatever the fit status
SaveOld_Unconditional ==
    /\ pc \in {"done", "aborted"}
    /\ disk' = [platepar |-> NoFile, old |-> disk.platepar]
    /\ pc' = "moved"
    /\ UNCHANGED <<inputs, platepar, star_dict, pool, ri, max_radius, ret, ntrial, res,
                   last_eval, eval_dicts, calls, n_pass, n_conv, pp_accepted, run, samples>>

\* Lines 484-493 of the command-line driver: `if fit_status:` and
\* shutil.move of the platepar file to <platepar_name>.old
SaveOld ==
    /\ pc = "done"
    /\ disk' = [platepar |-> NoFile, old |-> disk.platepar]
    /\ pc' = "moved"
    /\ UNCHANGED <<inputs, platepar, star_dict, pool, ri, max_radius, ret, ntrial, res,
                   last_eval, eval_dicts, calls, n_pass, n_conv, pp_accepted, run, samples>>

\* Lines 495-496: pp.write of the platepar returned by autoCheckFit
WriteNew ==
    /\ pc = "moved"
    /\ disk' = [disk EXCEPT !.platepar = File(ret.platepar)]
    /\ pc' = "saved"
    /\ UNCHANGED <<inputs, platepar, star_dict, pool, ri, max_radius, ret, ntrial, res,
                   last_eval, eval_dicts, calls, n_pass, n_conv, pp_accepted, run, samples>>

\* The caller makes a second call of autoCheckFit with the same arguments
CallAgain ==
    /\ pc \in {"done", "aborted", "raised"}
    /\ run = 1
    /\ platepar' = platepar_in
    /\ star_dict' = EmptyDict
    /\ pool' = EmptyDict
    /\ pc' = "start"
    /\ ri' = 0
    /\ max_radius' = 0
    /\ ret' = NoRet
    /\ ntrial' = 0
    /\ res' = NoRes
    /\ last_eval' = NoEval
    /\ eval_dicts' = {}
    /\ calls' = <<>>
    /\ n_pass' = 0
    /\ n_conv' = 0
    /\ pp_accepted' = platepar_in
    /\ run' = run + 1
    /\ UNCHANGED <<inputs, disk, samples>>

Next ==
    \/ BuildPool
    \/ NotEnoughFiles
    \/ SampleFiles
    \/ NotEnoughStars
    \/ StartRadiusLoop
    \/ InitialCheckUnpackError
    \/ InitialCheckPoor
    \/ InitialCheckPass
    \/ AstroTrial
    \/ AstroFailed
    \/ AstroConverged
    \/ XTrial
    \/ XFailed
    \/ XConverged
    \/ YTrial
    \/ YFailed
    \/ YConverged
    \/ FinalStatsUnpackError
    \/ FinalStats

Spec == Init /\ [][Next]_vars

\* The caller may repeat the call
NextAgain ==
    \/ Next
    \/ CallAgain

SpecAgain == Init /\ [][NextAgain]_vars

(***************************************************************************)
(* Direct calls of matchStarsResiduals                                     *)
(***************************************************************************)
\* Detected stars on the row y = 1 px of the 12 x 4 px image
EvalStars == { <<4, 16, 0, 1>>, <<4, 28, 0, 1>>, <<4, 40, 0, 1>> }

EvalStarLists == UNION { [1..n -> EvalStars] : n \in 1..MaxStars }

EvalDicts ==
    { [jd \in {1} |-> l] : l \in EvalStarLists }
    \cup { [jd \in {1, 2} |-> IF jd = 1 THEN l ELSE m] :
              l \in EvalStarLists, m \in { << <<4, 28, 0, 1>> >>,
                                           << <<4, 16, 0, 1>>, <<4, 28, 0, 1>> >> } }

\* Catalogs: two stars at the same distance of x = 16 in either order, a star
\* above the image, a star fainter than the magnitude limit
EvalCatalogs ==
    { << <<8, 4, 2>>, <<24, 4, 2>>, <<40, -2, 3>> >>,
      << <<40, -2, 3>>, <<24, 4, 2>>, <<8, 4, 2>> >>,
      << <<24, 4, 2>>, <<36, 4, 5>>, <<28, 4, 3>> >> }

EvalRadii == {8, 12}

EvalPlatepar(w, h) ==
    [RA_d |-> 0, dec_d |-> 0, pos_angle_ref |-> 0, F_scale |-> 1,
     x_poly |-> <<0, 0>>, y_poly |-> <<0, 0>>, X_res |-> w, Y_res |-> h]

\* Three images of ten stars, the catalog stars shifted by `off` in X
SceneDict == [jd \in 1..3 |-> [i \in 1..10 |-> <<200, 1000 + 40 * i, 0, 1>>]]

SceneCatalog(off) == [i \in 1..10 |-> <<1000 + 40 * i + off, 200, 2>>]

\* One image of 120 detections of a star 330 px and 33 px off its catalog star
FarDict == [jd \in {1} |-> [i \in 1..120 |-> <<68, 80, 0, 1>>]]

FarCatalog == << <<1400, 200, 2>> >>

EvalCases ==
    [pp : {EvalPlatepar(X_RES, Y_RES)}, catalog : EvalCatalogs, sd : EvalDicts,
     max_r : EvalRadii, min_matched_stars : 1..3]
    \cup [pp : {EvalPlatepar(2400, 400)}, catalog : {SceneCatalog(0), SceneCatalog(8)},
          sd : {SceneDict}, max_r : {4, 12}, min_matched_stars : {1, 7, 11}]
    \cup [pp : {EvalPlatepar(2400, 400)}, catalog : {FarCatalog}, sd : {FarDict},
          max_r : {1200, 1400}, min_matched_stars : {1, 7}]

\* The arguments of a call matchStarsResiduals(platepar, catalog_stars,
\* star_dict, max_radius, min_matched_stars, ret_nmatch)
InitEval ==
    \E c \in EvalCases :
        /\ config = [ff_min_stars |-> 1, calstars_files_N |-> 1, calstars_min_stars |-> 1,
                     min_matched_stars |-> c.min_matched_stars, catalog_mag_limit |-> 4]
        /\ calstars_list = <<>>
        /\ platepar_in = c.pp
        /\ catalog_stars = c.catalog
        /\ disk = [platepar |-> NoFile, old |-> NoFile]
        /\ platepar = c.pp
        /\ star_dict = c.sd
        /\ pool = c.sd
        /\ pc = "direct"
        /\ ri = 0
        /\ max_radius = c.max_r
        /\ ret = NoRet
        /\ ntrial = 0
        /\ res = NoRes
        /\ last_eval = NoEval
        /\ eval_dicts = {}
        /\ calls = <<>>
        /\ n_pass = 0
        /\ n_conv = 0
        /\ pp_accepted = c.pp
        /\ run = 1
        /\ samples = <<>>
        /\ Idle

\* Lines 33-223: the call and its return
DirectCall ==
    /\ pc = "direct"
    /\ \E ret_nmatch \in BOOLEAN : Evaluate("direct", platepar, platepar, ret_nmatch)
    /\ pc' = "returned"
    /\ UNCHANGED <<inputs, disk, platepar, star_dict, pool, ri, max_radius, ret, ntrial, res,
                   calls, n_pass, n_conv, pp_accepted, run, samples>>

NextEval == DirectCall

SpecEval == InitEval /\ [][NextEval]_vars

\* A second call with the same calibration, catalog, images and threshold,
\* and a larger radius, 3 px or 5 px; both calls return the number of
\* matched stars
CallLarger ==
    /\ pc = "returned"
    /\ last_eval.ret_nmatch
    /\ \E r2 \in {12, 20} :
          /\ r2 > max_radius
          /\ max_radius' = r2
          /\ last_eval' =
                [called |-> TRUE, kind |-> "direct", base |-> platepar, pp |-> platepar,
                 sd |-> star_dict, max_radius |-> r2, ret_nmatch |-> TRUE,
                 n_matched |-> Len(GlobalDistList(platepar, catalog_stars, star_dict,
                                                  SortedKeys(DOMAIN star_dict), r2,
                                                  config.min_matched_stars)),
                 result |-> matchStarsResiduals(platepar, catalog_stars, star_dict, r2,
                                                config.min_matched_stars, TRUE)]
    /\ first_eval' = last_eval
    /\ eval_dicts' = eval_dicts \cup {star_dict}
    /\ pc' = "compared"
    /\ UNCHANGED <<config, calstars_list, platepar_in, catalog_stars, disk, platepar,
                   star_dict, pool, ri, ret, ntrial, res, calls, n_pass, n_conv,
                   pp_accepted, run, samples, process, videos, flat, extraction, capture>>

NextRadii ==
    \/ DirectCall
    \/ CallLarger

SpecRadii == InitEval /\ [][NextRadii]_vars

\* The command-line driver: the night directory may hold a .old file of an
\* earlier run
InitMain ==
    \E cfg \in Configs, pp \in Platepars, cl \in CalstarsLists :
        \E old \in {NoFile, File(SetAstro(pp, <<0, 0, 0, 1>>))} :
            Entry(cfg, pp, cl, old, 1, <<>>)

NextMain ==
    \/ Next
    \/ SaveOld
    \/ WriteNew

SpecMain == InitMain /\ [][NextMain]_vars

(***************************************************************************)
(* FieldSolver (RMS/Astrometry/FieldSolver.py): a Process that runs the    *)
(* external solve-field program, and its parent                            *)
(***************************************************************************)
JOIN_SECONDS == 60     \* `for i in range(60)` of stopSolver and stopCapture

\* The variables of autoCheckFit and of the calls of its evaluator
acf == <<config, calstars_list, platepar_in, catalog_stars, disk, platepar, star_dict, pool,
         pc, ri, max_radius, ret, ntrial, res, last_eval, eval_dicts, calls, n_pass,
         n_conv, pp_accepted, run, samples, first_eval>>

\* No refinement is running
NoRefinement ==
    /\ config = [ff_min_stars |-> 1, calstars_files_N |-> 1, calstars_min_stars |-> 1,
                 min_matched_stars |-> 1, catalog_mag_limit |-> 4]
    /\ calstars_list = <<>>
    /\ platepar_in = EvalPlatepar(X_RES, Y_RES)
    /\ catalog_stars = <<>>
    /\ disk = [platepar |-> NoFile, old |-> NoFile]
    /\ platepar = platepar_in
    /\ star_dict = EmptyDict
    /\ pool = EmptyDict
    /\ pc = "idle"
    /\ ri = 0
    /\ max_radius = 0
    /\ ret = NoRet
    /\ ntrial = 0
    /\ res = NoRes
    /\ last_eval = NoEval
    /\ eval_dicts = {}
    /\ calls = <<>>
    /\ n_pass = 0
    /\ n_conv = 0
    /\ pp_accepted = platepar_in
    /\ run = 1
    /\ samples = <<>>
    /\ first_eval = NoEval

\* Process.is_alive()
is_alive == proc \notin {"unstarted", "finished", "killed"}

\* p.poll() is None
Running(c) == c \in 1..Len(children) /\ children[c] = "running"

\* The FieldSolver after __init__
InitSolver ==
    /\ NoRefinement
    /\ NoCapture
    /\ NoProcess
    /\ NoVideos
    /\ NoFlat
    /\ NoExtraction

\* startSolver, lines 69-70
startSolver ==
    /\ proc = "unstarted"
    /\ exit' = FALSE
    /\ proc' = "run"
    /\ UNCHANGED <<acf, capture, videos, flat, extraction, children, subproc, stop_pc, stop_i, queue>>

\* run, lines 121-129: subprocess.Popen
SolverPopen ==
    /\ proc = "run"
    /\ children' = Append(children, "running")
    /\ subproc' = Len(children) + 1
    /\ proc' = "wait"
    /\ UNCHANGED <<acf, capture, videos, flat, extraction, exit, stop_pc, stop_i, queue>>

\* run, lines 133-134: the wait loop ends when the solver has ended or the
\* event is set; otherwise the process sleeps and tests again
SolverLeaveWait ==
    /\ proc = "wait"
    /\ ~(Running(subproc) /\ ~exit)
    /\ proc' = "communicate"
    /\ UNCHANGED <<acf, capture, videos, flat, extraction, exit, children, subproc, stop_pc, stop_i, queue>>

\* run, lines 136-138: p.communicate() reads the output to its end and waits
\* for the solver to end; format_results puts a solution, if the output has
\* one, on the queue
SolverCommunicate ==
    /\ proc = "communicate"
    /\ ~Running(subproc)
    /\ \E solved \in BOOLEAN :
          queue' = IF solved /\ children[subproc] = "exited"
                   THEN Append(queue, "ra_dec_rotation") ELSE queue
    /\ proc' = "poll"
    /\ UNCHANGED <<acf, capture, videos, flat, extraction, exit, children, subproc, stop_pc, stop_i>>

\* run, lines 141-148: a solver still running is terminated and waited for
SolverTerminate ==
    /\ proc = "poll"
    /\ children' = IF Running(subproc) THEN [children EXCEPT ![subproc] = "terminated"]
                   ELSE children
    /\ proc' = "finished"
    /\ UNCHANGED <<acf, capture, videos, flat, extraction, exit, subproc, stop_pc, stop_i, queue>>

\* The external program ends by itself
ChildExits ==
    \E c \in 1..Len(children) :
        /\ children[c] = "running"
        /\ children' = [children EXCEPT ![c] = "exited"]
        /\ UNCHANGED <<acf, capture, videos, flat, extraction, exit, subproc, proc, stop_pc, stop_i, queue>>

\* stopSolver, line 77
StopSet ==
    /\ stop_pc = "idle"
    /\ proc # "unstarted"
    /\ exit' = TRUE
    /\ stop_i' = 0
    /\ stop_pc' = "join"
    /\ UNCHANGED <<acf, capture, videos, flat, extraction, children, subproc, proc, queue>>

\* stopSolver, lines 82-86: one second of sleep while the Process is alive
StopSleep ==
    /\ stop_pc = "join"
    /\ stop_i < JOIN_SECONDS
    /\ is_alive
    /\ stop_i' = stop_i + 1
    /\ UNCHANGED <<acf, capture, videos, flat, extraction, exit, children, subproc, proc, stop_pc, queue>>

\* stopSolver, lines 82-86: the loop ends
StopJoined ==
    /\ stop_pc = "join"
    /\ stop_i = JOIN_SECONDS \/ ~is_alive
    /\ stop_pc' = "joined"
    /\ UNCHANGED <<acf, capture, videos, flat, extraction, exit, children, subproc, proc, stop_i, queue>>

\* stopSolver, lines 88-90: Process.terminate() ends the Process, not the
\* subprocess it started
StopTerminate ==
    /\ stop_pc = "joined"
    /\ proc' = IF is_alive THEN "killed" ELSE proc
    /\ stop_pc' = "returned"
    /\ UNCHANGED <<acf, capture, videos, flat, extraction, exit, children, subproc, stop_i, queue>>

NextSolver ==
    \/ startSolver
    \/ SolverPopen
    \/ SolverLeaveWait
    \/ SolverCommunicate
    \/ SolverTerminate
    \/ ChildExits
    \/ StopSet
    \/ StopSleep
    \/ StopJoined
    \/ StopTerminate

SpecSolver == InitSolver /\ [][NextSolver]_vars

(***************************************************************************)
(* VideoRecorder (RMS/VideoRecorder.py): a Process that runs the capture   *)
(* program, copies its finished video files, and its parent                *)
(***************************************************************************)
MaxSegments == 2       \* video files written by the capture programs
MaxPopen == 2          \* capture programs started

\* Line 133: the name of the copy, from the creation time of the file
new_file_name(video_file) == <<"RH_", 1000 + video_file>>

\* shutil.copy2(video_file, data_dir + '/' + new_file_name)
Copy2(dir, video_file) ==
    { c \in dir : c[1] # new_file_name(video_file) }
        \cup { <<new_file_name(video_file), video_file>> }

\* Lines 122-128: the files that store_video_files copies, every file but
\* the newest one that was not modified in the last 5 seconds
store_video_files ==
    { video_file \in tmp_dir :
        /\ \E newer \in tmp_dir : newer > video_file
        /\ video_file \notin fresh }

RECURSIVE CopyAll(_, _)
CopyAll(dir, files) ==
    IF files = {} THEN dir
    ELSE LET video_file == CHOOSE x \in files : \A y \in files : x <= y
         IN CopyAll(Copy2(dir, video_file), files \ {video_file})

\* The VideoRecorder after __init__
InitRecorder ==
    /\ NoRefinement
    /\ NoCapture
    /\ NoProcess
    /\ NoVideos
    /\ NoFlat
    /\ NoExtraction

\* startCapture, lines 78-79; also for a new VideoRecorder made after
\* stopCapture has returned
startCapture ==
    /\ \/ proc = "unstarted"
       \/ stop_pc = "returned" /\ ~is_alive /\ Len(children) < MaxPopen
    /\ exit' = FALSE
    /\ subproc' = 0
    /\ stop_pc' = "idle"
    /\ stop_i' = 0
    /\ proc' = "run"
    /\ UNCHANGED <<acf, capture, flat, extraction, children, queue, videos>>

\* run, line 146, initVideoDevice, lines 111-113: every video file of the
\* temporary directory is removed
initVideoDevice ==
    /\ proc = "run"
    /\ tmp_dir' = {}
    /\ fresh' = {}
    /\ proc' = "loop"
    /\ UNCHANGED <<acf, capture, flat, extraction, exit, children, subproc, stop_pc, stop_i, queue, data_dir,
                   n_segments>>

\* run, line 149: the test of the outer loop
RecorderLoop ==
    /\ proc = "loop"
    /\ proc' = IF exit THEN "finished" ELSE "popen"
    /\ UNCHANGED <<acf, capture, flat, extraction, exit, children, subproc, stop_pc, stop_i, queue, videos>>

\* run, lines 152-154: subprocess.Popen
RecorderPopen ==
    /\ proc = "popen"
    /\ Len(children) < MaxPopen
    /\ children' = Append(children, "running")
    /\ subproc' = Len(children) + 1
    /\ proc' = "wait"
    /\ UNCHANGED <<acf, capture, flat, extraction, exit, stop_pc, stop_i, queue, videos>>

\* run, lines 158-160: one round of the wait loop, store_video_files and
\* two seconds of sleep
RecorderStore ==
    /\ proc = "wait"
    /\ Running(subproc) /\ ~exit
    /\ data_dir' = CopyAll(data_dir, store_video_files)
    /\ tmp_dir' = tmp_dir \ store_video_files
    /\ UNCHANGED <<acf, capture, flat, extraction, process, fresh, n_segments>>

\* run, line 158: the wait loop ends
RecorderLeaveWait ==
    /\ proc = "wait"
    /\ ~(Running(subproc) /\ ~exit)
    /\ proc' = "poll"
    /\ UNCHANGED <<acf, capture, flat, extraction, exit, children, subproc, stop_pc, stop_i, queue, videos>>

\* run, lines 163-170: a capture program still running is terminated and
\* waited for, then ten seconds of sleep
RecorderTerminate ==
    /\ proc = "poll"
    /\ children' = IF Running(subproc) THEN [children EXCEPT ![subproc] = "terminated"]
                   ELSE children
    /\ proc' = "loop"
    /\ UNCHANGED <<acf, capture, flat, extraction, exit, subproc, stop_pc, stop_i, queue, videos>>

\* A running capture program closes its video file and opens the next one
SegmentWritten ==
    /\ \E c \in 1..Len(children) : Running(c)
    /\ n_segments < MaxSegments
    /\ n_segments' = n_segments + 1
    /\ tmp_dir' = tmp_dir \cup {n_segments + 1}
    /\ fresh' = fresh \cup {n_segments + 1}
    /\ UNCHANGED <<acf, capture, flat, extraction, process, data_dir>>

\* Five seconds pass without a write to a video file
SegmentSettles ==
    \E video_file \in fresh :
        /\ fresh' = fresh \ {video_file}
        /\ UNCHANGED <<acf, capture, flat, extraction, process, tmp_dir, data_dir, n_segments>>

\* The capture program ends by itself
CaptureExits ==
    \E c \in 1..Len(children) :
        /\ children[c] = "running"
        /\ children' = [children EXCEPT ![c] = "exited"]
        /\ UNCHANGED <<acf, capture, flat, extraction, exit, subproc, proc, stop_pc, stop_i, queue, videos>>

\* stopCapture, lines 86-88
CaptureStopSet ==
    /\ stop_pc = "idle"
    /\ proc # "unstarted"
    /\ exit' = TRUE
    /\ stop_i' = 0
    /\ stop_pc' = "join"
    /\ UNCHANGED <<acf, capture, flat, extraction, children, subproc, proc, queue, videos>>

\* stopCapture, lines 93-95: one second of sleep while the Process is alive
CaptureStopSleep ==
    /\ stop_pc = "join"
    /\ stop_i < JOIN_SECONDS
    /\ is_alive
    /\ stop_i' = stop_i + 1
    /\ UNCHANGED <<acf, capture, flat, extraction, exit, children, subproc, proc, stop_pc, queue, videos>>

\* stopCapture, lines 93-97: the loop ends
CaptureStopJoined ==
    /\ stop_pc = "join"
    /\ stop_i = JOIN_SECONDS \/ ~is_alive
    /\ stop_pc' = "joined"
    /\ UNCHANGED <<acf, capture, flat, extraction, exit, children, subproc, proc, stop_i, queue, videos>>

\* stopCapture, lines 99-101: Process.terminate() ends the recorder, not the
\* capture program it started
CaptureStopTerminate ==
    /\ stop_pc = "joined"
    /\ proc' = IF is_alive THEN "killed" ELSE proc
    /\ stop_pc' = "returned"
    /\ UNCHANGED <<acf, capture, flat, extraction, exit, children, subproc, stop_i, queue, videos>>

NextRecorder ==
    \/ startCapture
    \/ initVideoDevice
    \/ RecorderLoop
    \/ RecorderPopen
    \/ RecorderStore
    \/ RecorderLeaveWait
    \/ RecorderTerminate
    \/ SegmentWritten
    \/ SegmentSettles
    \/ CaptureExits
    \/ CaptureStopSet
    \/ CaptureStopSleep
    \/ CaptureStopJoined
    \/ CaptureStopTerminate

SpecRecorder == InitRecorder /\ [][NextRecorder]_vars

(***************************************************************************)
(* makeFlat (Utils/MakeFlat.py): the flat field of a night directory       *)
(***************************************************************************)
MaxFF == 22            \* FF files of the night directory
BATCH == 10            \* `if c < 10`: images loaded before a median is taken
max_ff_flat == 200     \* line 120

\* File names: whether the name contains 'CALSTARS', whether it contains
\* '.txt', and the number of the FF file when validFFName holds (else 0)
FFName(k) == [calstars |-> FALSE, txt |-> FALSE, ff |-> k]
CalstarsTxt == [calstars |-> TRUE, txt |-> TRUE, ff |-> 0]
CalstarsBak == [calstars |-> TRUE, txt |-> FALSE, ff |-> 0]
NotesTxt == [calstars |-> FALSE, txt |-> TRUE, ff |-> 0]

validFFName(file_name) == file_name.ff > 0

\* getMiddleTimeFF and date2JD, in hours
FFTime(ff_name) == ff_name.ff

\* Lines 42 and 468: ('CALSTARS' in calstars_file) and ('.txt' in calstars_file)
IsCalstarsName(file_name) == file_name.calstars /\ file_name.txt

\* Lines 40-43: the value of the loop variable after the search: the first
\* name that passes the test, else the last name listed, None for no name
FindCalstars(listing) ==
    IF \E j \in 1..Len(listing) : IsCalstarsName(listing[j])
    THEN listing[CHOOSE j \in 1..Len(listing) :
                    /\ IsCalstarsName(listing[j])
                    /\ \A h \in 1..(j - 1) : ~IsCalstarsName(listing[h])]
    ELSE IF listing = <<>> THEN None
    ELSE listing[Len(listing)]

\* CALSTARS.readCALSTARS: the list of (FF name, stars) of a CALSTARS file;
\* a file of another kind cannot be read or holds no entry
readCALSTARS(dir, file_name) ==
    IF IsCalstarsName(file_name) THEN { [raised |-> FALSE, calstars_list |-> dir.calstars] }
    ELSE { [raised |-> TRUE], [raised |-> FALSE, calstars_list |-> <<>>] }

\* FFfile.read: None for a corrupted file
readFF(dir, ff_name) == IF ff_name \in dir.corrupted THEN None ELSE ff_name

\* Lines 63-65
FFList(dir, cs_list, no_stars) ==
    SelectSeq(dir.listing,
              LAMBDA file_name :
                  /\ validFFName(file_name)
                  /\ \/ \E e \in 1..Len(cs_list) : cs_list[e][1] = file_name
                     \/ no_stars)

\* len(calstars[ff_name]) for the dictionary of line 53
NStars(cs_list, ff_name) ==
    LET e == CHOOSE e \in 1..Len(cs_list) :
                 /\ cs_list[e][1] = ff_name
                 /\ \A h \in (e + 1)..Len(cs_list) : cs_list[h][1] # ff_name
    IN Len(cs_list[e][2])

\* Lines 79-104
FFListGood(ff_list, cs_list, no_stars, cfg) ==
    SelectSeq(ff_list,
              LAMBDA ff_name :
                  /\ validFFName(ff_name)
                  /\ \/ no_stars
                     \/ /\ \E e \in 1..Len(cs_list) : cs_list[e][1] = ff_name
                        /\ NStars(cs_list, ff_name) > cfg.ff_min_stars)

\* max(ff_times) - min(ff_times), in hours
TimeSpan(good) ==
    LET ff_times == { FFTime(good[j]) : j \in 1..Len(good) }
    IN (CHOOSE t \in ff_times : \A u \in ff_times : u <= t)
         - (CHOOSE t \in ff_times : \A u \in ff_times : t <= u)

\* Lines 120-122: sorted(random.sample(ff_list_good, max_ff_flat)) for more
\* than max_ff_flat files
SampleGood(good) ==
    IF Len(good) > max_ff_flat
    THEN { SelectSeq(good, LAMBDA ff_name : ff_name \in chosen) :
             chosen \in { t \in SUBSET { good[j] : j \in 1..Len(good) } :
                            Cardinality(t) = max_ff_flat } }
    ELSE {good}

\* Night directories: FF files 1..n with their CALSTARS entries, the first
\* `starry` of them with enough stars, other files before and after them
NightDirs ==
    { [listing |-> head \o [k \in 1..n |-> FFName(k)] \o tail,
       calstars |-> [k \in 1..n |-> <<FFName(k), IF k <= starry THEN <<StarA, StarB>>
                                                  ELSE <<StarA>> >>],
       corrupted |-> { FFName(k) : k \in bad \cap 1..n }] :
        n \in 0..MaxFF, starry \in {MaxFF, 2},
        head \in { <<>>, <<CalstarsTxt>>, <<CalstarsBak>> },
        tail \in { <<>>, <<CalstarsTxt>>, <<NotesTxt>> },
        bad \in { {}, {1}, {BATCH + 1}, 1..MaxFF } }

\* A call makeFlat(dir_path, config, nostars)
InitFlat ==
    /\ NoRefinement
    /\ NoCapture
    /\ NoProcess
    /\ NoVideos
    /\ NoExtraction
    /\ night_dir \in NightDirs
    /\ nostars \in BOOLEAN
    /\ flat_config \in [ff_min_stars : {1}, flat_min_imgs : {1, BATCH + 2}]
    /\ FlatLocals
    /\ flat_pc = "start"

\* `return None`, `return ff_median` or an exception
FlatReturn(value) ==
    /\ flat_ret' = value
    /\ flat_pc' = "done"

\* Lines 40-47: no name was listed
FlatNoCalstars ==
    /\ flat_pc = "start"
    /\ FindCalstars(night_dir.listing) = None
    /\ calstars_file' = None
    /\ FlatReturn([kind |-> "None"])
    /\ UNCHANGED <<acf, capture, process, videos, extraction, night_dir, nostars, flat_config, ff_list_good,
                   flat_i, flat_c, ff_avg_list, median_list>>

\* Lines 40-122: the CALSTARS file is loaded and the good FF files selected
FlatSelect ==
    /\ flat_pc = "start"
    /\ FindCalstars(night_dir.listing) # None
    /\ calstars_file' = FindCalstars(night_dir.listing)
    /\ \E loaded \in readCALSTARS(night_dir, calstars_file') :
          IF loaded.raised
          THEN FlatReturn([kind |-> "raised", by |-> "readCALSTARS"])
               /\ UNCHANGED ff_list_good
          ELSE LET ff_list == FFList(night_dir, loaded.calstars_list, nostars)
                   good == FFListGood(ff_list, loaded.calstars_list, nostars, flat_config)
               IN IF ff_list = <<>>
                  THEN FlatReturn([kind |-> "None"]) /\ UNCHANGED ff_list_good
                  ELSE IF Len(good) < flat_config.flat_min_imgs /\ ~nostars
                  THEN FlatReturn([kind |-> "None"]) /\ UNCHANGED ff_list_good
                  ELSE IF good = <<>>
                  THEN FlatReturn([kind |-> "raised", by |-> "max"])
                       /\ UNCHANGED ff_list_good
                  ELSE IF ~(TimeSpan(good) > 2) /\ ~nostars
                  THEN FlatReturn([kind |-> "None"]) /\ UNCHANGED ff_list_good
                  ELSE /\ ff_list_good' \in SampleGood(good)
                       /\ flat_pc' = "loop"
                       /\ UNCHANGED flat_ret
    /\ UNCHANGED <<acf, capture, process, videos, extraction, night_dir, nostars, flat_config, flat_i, flat_c,
                   ff_avg_list, median_list>>

\* Lines 133-158: one round of the loop over ff_list_good: with c < 10 the
\* file is loaded, and kept unless it is corrupted; otherwise the median of
\* the loaded images is taken and the file of this round is not loaded
FlatStep ==
    /\ flat_pc = "loop"
    /\ flat_i < Len(ff_list_good)
    /\ flat_i' = flat_i + 1
    /\ IF flat_c < BATCH
       THEN LET ff == readFF(night_dir, ff_list_good[flat_i'])
            IN IF ff = None
               THEN UNCHANGED <<ff_avg_list, flat_c, median_list>>
               ELSE /\ ff_avg_list' = Append(ff_avg_list, ff)
                    /\ flat_c' = flat_c + 1
                    /\ UNCHANGED median_list
       ELSE /\ median_list' = Append(median_list, ff_avg_list)
            /\ ff_avg_list' = <<>>
            /\ flat_c' = 0
    /\ UNCHANGED <<acf, capture, process, videos, extraction, night_dir, nostars, flat_config, calstars_file,
                   ff_list_good, flat_pc, flat_ret>>

\* Lines 161-178: the median of the medians, or the only median
FlatCombine ==
    /\ flat_pc = "loop"
    /\ flat_i = Len(ff_list_good)
    /\ IF Len(median_list) > 1
       THEN FlatReturn([kind |-> "flat", ff_median |-> median_list])
       ELSE IF median_list = <<>>
       THEN FlatReturn([kind |-> "raised", by |-> "IndexError"])
       ELSE FlatReturn([kind |-> "flat", ff_median |-> <<median_list[1]>>])
    /\ UNCHANGED <<acf, capture, process, videos, extraction, night_dir, nostars, flat_config, calstars_file,
                   ff_list_good, flat_i, flat_c, ff_avg_list, median_list>>

NextFlat ==
    \/ FlatNoCalstars
    \/ FlatSelect
    \/ FlatStep
    \/ FlatCombine

SpecFlat == InitFlat /\ [][NextFlat]_vars

(***************************************************************************)
(* The driver of ExtractStars (RMS/ExtractStars.py, __main__): the stars   *)
(* of every FF file of a directory, extracted by a pool of workers         *)
(***************************************************************************)
MaxJobs == 3           \* FF files of the directory

\* extractStars(ff_dir, ff_name, ...): the stars found, (x, y, amplitude,
\* intensity) each; no star for a file that cannot be processed
extractStars(dir, ff) == dir[ff]

\* The driver started on a directory of FF files, some of them without
\* stars; the FF file number k has one star at (10 k, 10 k + 1)
InitExtraction ==
    /\ NoRefinement
    /\ NoCapture
    /\ NoProcess
    /\ NoVideos
    /\ NoFlat
    /\ \E n \in 0..MaxJobs, starless \in SUBSET (1..MaxJobs) :
          ff_stars = [k \in 1..n |-> IF k \in starless THEN <<>>
                                    ELSE << <<10 * k, 10 * k + 1, 0, 1>> >>]
    /\ ExtractionLocals
    /\ es_pc = "start"

\* Lines 441-451: the sorted valid FF names
BuildExtractionList ==
    /\ es_pc = "start"
    /\ extraction_list' = [k \in 1..Len(ff_stars) |-> k]
    /\ loop_ff_name' = IF ff_stars = <<>> THEN loop_ff_name ELSE Len(ff_stars)
    /\ es_pc' = "add"
    /\ UNCHANGED <<acf, capture, process, videos, flat, ff_stars, queued, results, star_list,
                   calstars_out>>

\* Lines 461-463: one round of `for ff_name in extraction_list`, addJob
AddJob ==
    /\ es_pc = "add"
    /\ Cardinality(queued) < Len(extraction_list)
    /\ loop_ff_name' = extraction_list[Cardinality(queued) + 1]
    /\ queued' = queued \cup {loop_ff_name'}
    /\ UNCHANGED <<acf, capture, process, videos, flat, ff_stars, extraction_list, results,
                   star_list, calstars_out, es_pc>>

\* Line 469: startPool after the last job was added
StartPool ==
    /\ es_pc = "add"
    /\ Cardinality(queued) = Len(extraction_list)
    /\ es_pc' = "pool"
    /\ UNCHANGED <<acf, capture, process, videos, flat, ff_stars, extraction_list, queued,
                   results, loop_ff_name, star_list, calstars_out>>

\* A worker of the pool finishes a job; its result joins the results
WorkerDone ==
    /\ es_pc = "pool"
    /\ \E ff \in queued :
          /\ results' = Append(results, extractStars(ff_stars, ff))
          /\ queued' = queued \ {ff}
    /\ UNCHANGED <<acf, capture, process, videos, flat, ff_stars, extraction_list, loop_ff_name,
                   star_list, calstars_out, es_pc>>

\* Line 475: closePool returns when every job is finished
ClosePool ==
    /\ es_pc = "pool"
    /\ queued = {}
    /\ es_pc' = "results"
    /\ UNCHANGED <<acf, capture, process, videos, flat, ff_stars, extraction_list, queued,
                   results, loop_ff_name, star_list, calstars_out>>

\* Lines 479-491: one round of `for result in workpool.getResults()`: a
\* result with stars is appended under the current value of ff_name
TakeResult ==
    /\ es_pc = "results"
    /\ results # <<>>
    /\ LET star_data == Head(results)
       IN star_list' = IF star_data = <<>> THEN star_list
                       ELSE Append(star_list, <<loop_ff_name, star_data>>)
    /\ results' = Tail(results)
    /\ UNCHANGED <<acf, capture, process, videos, flat, ff_stars, extraction_list, queued,
                   loop_ff_name, calstars_out, es_pc>>

\* Lines 509-525: the first readable FF file gives the image size, and the
\* star list is written; without any FF file `ff` is not defined
WriteCalstars ==
    /\ es_pc = "results"
    /\ results = <<>>
    /\ calstars_out' = IF extraction_list = <<>> THEN [kind |-> "raised"]
                       ELSE [kind |-> "file", star_list |-> star_list]
    /\ es_pc' = "done"
    /\ UNCHANGED <<acf, capture, process, videos, flat, ff_stars, extraction_list, queued,
                   results, loop_ff_name, star_list>>

NextExtraction ==
    \/ BuildExtractionList
    \/ AddJob
    \/ StartPool
    \/ WorkerDone
    \/ ClosePool
    \/ TakeResult
    \/ WriteCalstars

SpecExtraction == InitExtraction /\ [][NextExtraction]_vars

(***************************************************************************)
(* ConfigReader.parseCapture (RMS/ConfigReader.py): the image size and the *)
(* region of interest                                                      *)
(***************************************************************************)
MaxPix == 2            \* largest configured width and height

\* parser.getint(section, name) when the option exists, else the value held
GetInt(option, held) == IF option = Absent THEN held ELSE option

\* Variant: the bounds are not put in order
NormaliseROI_NoSwap(lo, hi, size) ==
    LET lo2 == IF lo < 0 \/ lo > size THEN 0 ELSE lo
        hi2 == IF hi < 0 \/ hi > size THEN size ELSE hi
    IN <<lo2, hi2>>

\* Lines 375-382 and 385-392: the bounds put in order, then a lower bound
\* outside 0..size set to 0 and an upper bound outside 0..size set to size
NormaliseROI(lo, hi, size) ==
    LET lo1 == IF lo > hi THEN hi ELSE lo
        hi1 == IF lo > hi THEN lo ELSE hi
        lo2 == IF lo1 < 0 \/ lo1 > size THEN 0 ELSE lo1
        hi2 == IF hi1 < 0 \/ hi1 > size THEN size ELSE hi1
    IN <<lo2, hi2>>

\* A Config object as constructed and a configuration file: a size option
\* is absent or in 0..MaxPix, a ROI option absent or in -1..MaxPix + 1
InitCapture ==
    /\ NoRefinement
    /\ NoProcess
    /\ NoVideos
    /\ NoFlat
    /\ NoExtraction
    /\ parser \in [has_section : {TRUE},
                   width : {Absent} \cup (0..MaxPix),
                   height : {Absent} \cup (0..MaxPix),
                   roi_left : {Absent} \cup (-1..(MaxPix + 1)),
                   roi_right : {Absent} \cup (-1..(MaxPix + 1)),
                   roi_up : {Absent} \cup (-1..(MaxPix + 1)),
                   roi_down : {Absent} \cup (-1..(MaxPix + 1))]
                  \cup {[has_section |-> FALSE, width |-> Absent, height |-> Absent,
                         roi_left |-> Absent, roi_right |-> Absent, roi_up |-> Absent,
                         roi_down |-> Absent]}
    /\ cap_config = ConfigDefaults
    /\ cap_pc = "start"

\* Lines 342-397
parseCapture ==
    /\ cap_pc = "start"
    /\ cap_config' =
          IF ~parser.has_section THEN cap_config
          ELSE LET width == GetInt(parser.width, cap_config.width)
                   width_device == IF parser.width = Absent THEN cap_config.width_device
                                   ELSE width
                   height == GetInt(parser.height, cap_config.height)
                   height_device == IF parser.height = Absent THEN cap_config.height_device
                                    ELSE height
                   horizontal == NormaliseROI(GetInt(parser.roi_left, cap_config.roi_left),
                                              GetInt(parser.roi_right, cap_config.roi_right),
                                              width)
                   vertical == NormaliseROI(GetInt(parser.roi_up, cap_config.roi_up),
                                            GetInt(parser.roi_down, cap_config.roi_down),
                                            height)
               IN [width |-> horizontal[2] - horizontal[1],
                   height |-> vertical[2] - vertical[1],
                   width_device |-> width_device, height_device |-> height_device,
                   roi_left |-> horizontal[1], roi_right |-> horizontal[2],
                   roi_up |-> vertical[1], roi_down |-> vertical[2]]
    /\ cap_pc' = "parsed"
    /\ UNCHANGED <<acf, process, videos, flat, extraction, parser>>

NextCapture == parseCapture

SpecCapture == InitCapture /\ [][NextCapture]_vars

(***************************************************************************)
(* Properties                                                              *)
(***************************************************************************)
IsPrefix(s, t) == Len(s) <= Len(t) /\ \A i \in 1..Len(s) : s[i] = t[i]

\* The calls of a run that goes through the three radii
ExpectedCalls ==
    << <<"check", 12>>, <<"astro", 12>>, <<"x", 12>>, <<"y", 12>>,
       <<"check", 6>>, <<"astro", 6>>, <<"x", 6>>, <<"y", 6>>,
       <<"check", 3>>, <<"astro", 3>>, <<"x", 3>>, <<"y", 3>>,
       <<"final", 3>> >>

TooFewFiles ==
    /\ pc # "start"
    /\ Cardinality(DOMAIN pool) < config.calstars_files_N

TooFewStars ==
    /\ pc \notin {"start", "files"}
    /\ TotalCalstars(star_dict, DOMAIN star_dict) < config.calstars_min_stars

\* C1: with fewer qualifying images than calstars_files_N, or fewer stars in
\* the sampled images than calstars_min_stars, autoCheckFit returns False and
\* the calibration with its input values, and neither the evaluator nor the
\* minimizer has been called.
C1_InsufficientDataAborts ==
    (TooFewFiles \/ TooFewStars) =>
        /\ pc \in {"files", "stars", "aborted"}
        /\ eval_dicts = {}
        /\ calls = <<>>
        /\ ~last_eval.called
        /\ ~res.returned
        /\ platepar = platepar_in
        /\ pc = "aborted" =>
              ret = [returned |-> TRUE, platepar |-> platepar_in, success |-> FALSE]

C1_Witness ==
    /\ pc = "aborted"
    /\ TooFewStars
    /\ ~TooFewFiles
    /\ ret.returned

\* C2: when the evaluation at the start of a radius matches fewer stars than
\* calstars_files_N (0 included), autoCheckFit returns False and the
\* calibration as it was after the previous radius, without any minimizer call
\* for this radius.
C2_PoorInitialFitAborts ==
    (last_eval.called /\ last_eval.kind = "check"
        /\ last_eval.n_matched < config.calstars_files_N) =>
        /\ ret.returned
        /\ ~ret.success
        /\ ret.platepar = pp_accepted
        /\ calls[Len(calls)] = <<"check", max_radius>>

\* C3: a run never ends by raising an exception.
C3_NoException == pc # "raised"

\* C4: when a minimizer call reports non-convergence, autoCheckFit returns
\* False at once: the step makes no evaluator call, the last call made is the
\* failed minimization, nothing more can happen, the result of the failed fit
\* is not written and the calibration returned is the one holding the accepted
\* results.
C4_DivergenceAborts ==
    (res.returned /\ ~res.success) =>
        /\ pc = "aborted"
        /\ ret = [returned |-> TRUE, platepar |-> pp_accepted, success |-> FALSE]
        /\ platepar = pp_accepted
        /\ ~last_eval.called
        /\ calls[Len(calls)] = <<res.kind, max_radius>>
        /\ ~ENABLED Next

C4_Witness ==
    /\ res.returned
    /\ ~res.success
    /\ res.kind = "x"
    /\ ri = 2
    /\ res.x # platepar.x_poly
    /\ platepar # platepar_in

\* C5: when there are no more qualifying images than calstars_files_N, the
\* sampling changes nothing: the dictionary used from then on, and by every
\* evaluation, is the whole pool.
C5_SmallPoolUsedWhole ==
    (pc # "start" /\ Cardinality(DOMAIN pool) <= config.calstars_files_N) =>
        /\ star_dict = pool
        /\ \A d \in eval_dicts : d = pool
        /\ last_eval.called => last_eval.sd = pool

C5_Witness ==
    /\ pc = "x"
    /\ Cardinality(DOMAIN pool) = config.calstars_files_N
    /\ config.calstars_files_N = 2
    /\ eval_dicts = {pool}
    /\ Len(samples) = 1

C8_StageOrdering ==
    /\ IsPrefix(calls, ExpectedCalls)
    /\ last_eval.called =>
          /\ calls[Len(calls)] = <<last_eval.kind, last_eval.max_radius>>
          /\ last_eval.max_radius = max_radius
          /\ ri \in 1..3
          /\ max_radius = <<12, 6, 3>>[ri]
          /\ last_eval.base = pp_accepted
          /\ last_eval.kind \in {"check", "final"} => last_eval.pp = pp_accepted
          /\ (last_eval.kind \in {"astro", "x", "y"} /\ ntrial = 1) =>
                last_eval.pp = pp_accepted
          /\ last_eval.kind = "astro" =>
                \E params \in AstroParams : last_eval.pp = SetAstro(pp_accepted, params)
          /\ last_eval.kind = "x" =>
                \E params \in XPolyVals : last_eval.pp = [pp_accepted EXCEPT !.x_poly = params]
          /\ last_eval.kind = "y" =>
                \E params \in YPolyVals : last_eval.pp = [pp_accepted EXCEPT !.y_poly = params]

C8_Witness ==
    /\ pc = "y"
    /\ ri = 3
    /\ ntrial = 2
    /\ last_eval.called
    /\ last_eval.pp # pp_accepted
    /\ pp_accepted # platepar_in
    /\ Len(calls) = 12

\* C9: autoCheckFit returns True only after the initial check passed at each
\* of the three radii and the nine minimizer calls converged, and the
\* calibration returned is the one holding the last accepted Y result, which
\* the final evaluation leaves as it is.
C9_SuccessOnlyAfterAllStages ==
    (ret.returned /\ ret.success) =>
        /\ n_pass = 3
        /\ n_conv = 9
        /\ calls = ExpectedCalls
        /\ res.returned /\ res.success /\ res.kind = "y"
        /\ ret.platepar = pp_accepted
        /\ ret.platepar.y_poly = res.x
        /\ platepar = pp_accepted

C9_Witness ==
    /\ pc = "done"
    /\ ret.returned
    /\ ret.success
    /\ ret.platepar # platepar_in

\* C10: with ret_nmatch=True the evaluator returns the triple (matched count,
\* mean distance, cost) for every input, with count 0 and the sentinel cost
\* when nothing is matched, and without ret_nmatch it returns the bare cost.
C10_WithCountReturnsTriple ==
    last_eval.called =>
        IF last_eval.ret_nmatch
        THEN /\ last_eval.result.shape = "triple"
             /\ last_eval.result.n_matched = last_eval.n_matched
             /\ last_eval.n_matched = 0 => last_eval.result.cost = ConstCost(SENTINEL)
        ELSE last_eval.result.shape = "scalar"

\* C11: a cost evaluation leaves the calibration of the controller, the
\* catalog and the images as they are: the step of every evaluation changes
\* none of them, and a trial of the minimizer is evaluated on a copy made from
\* the calibration of the controller.
C11_EvaluationChangesNothing ==
    [][last_eval'.called =>
          /\ platepar' = platepar
          /\ star_dict' = star_dict
          /\ catalog_stars' = catalog_stars
          /\ last_eval'.base = platepar
          /\ last_eval'.sd = star_dict]_vars

C11_Witness ==
    /\ last_eval.called
    /\ last_eval.kind = "astro"
    /\ ntrial = 2
    /\ last_eval.pp.RA_d # platepar.RA_d
    /\ platepar = platepar_in

\* C12: accepting the 4-parameter result changes RA_d, dec_d, pos_angle_ref
\* and F_scale only, accepting the X result changes x_poly only, accepting
\* the Y result changes y_poly only, and no step changes X_res or Y_res.
C12_SubStepFrames ==
    [][platepar' # platepar =>
          \/ /\ pc = "astro"
             /\ platepar' = SetAstro(platepar, res'.x)
             /\ platepar'.x_poly = platepar.x_poly
             /\ platepar'.y_poly = platepar.y_poly
             /\ platepar'.X_res = platepar.X_res
             /\ platepar'.Y_res = platepar.Y_res
          \/ /\ pc = "x"
             /\ platepar' = [platepar EXCEPT !.x_poly = res'.x]
          \/ /\ pc = "y"
             /\ platepar' = [platepar EXCEPT !.y_poly = res'.x]]_vars

C12_Witness ==
    /\ pc = "check"
    /\ ri = 2
    /\ res.returned /\ res.success /\ res.kind = "y"
    /\ platepar.RA_d # platepar_in.RA_d
    /\ platepar.x_poly # platepar_in.x_poly
    /\ platepar.y_poly # platepar_in.y_poly

\* C13: after a run that returns False, the calibration given by the caller
\* holds the values it had before the run.
C13_FailureKeepsInput ==
    (ret.returned /\ ~ret.success) => platepar = platepar_in

\* C14: the files of the night directory change only after autoCheckFit
\* returned True: first the platepar file is moved to the .old file, then the
\* returned platepar is written as the platepar file.
C14_PersistOnlyOnSuccess ==
    [][disk' # disk =>
          /\ ret.returned
          /\ ret.success
          /\ \/ /\ disk.platepar = File(platepar_in)
                /\ disk' = [platepar |-> NoFile, old |-> File(platepar_in)]
             \/ /\ disk = [platepar |-> NoFile, old |-> File(platepar_in)]
                /\ disk' = [platepar |-> File(ret.platepar), old |-> File(platepar_in)]]_vars

C14_Witness ==
    /\ pc = "saved"
    /\ disk = [platepar |-> File(ret.platepar), old |-> File(platepar_in)]
    /\ ret.platepar # platepar_in

(***************************************************************************)
(* The evaluation recorded in last_eval, image by image                    *)
(***************************************************************************)
\* The pairs (image star, catalog star, distance) found in the image jd
PairsOf(jd) ==
    MatchImage(last_eval.pp, catalog_stars, last_eval.sd[jd], jd, last_eval.max_radius)

\* The catalog stars projected inside [0, X_res) x [0, Y_res)
Candidates(jd) ==
    LET cat == CatalogXY(last_eval.pp, catalog_stars, jd)
    IN { k \in 1..Len(cat.cat_x_array) :
            /\ 0 <= cat.cat_x_array[k] /\ cat.cat_x_array[k] < last_eval.pp.X_res
            /\ 0 <= cat.cat_y_array[k] /\ cat.cat_y_array[k] < last_eval.pp.Y_res }

\* Squared distance in the units of the model from image star i to catalog star k
D2(jd, i, k) ==
    LET cat == CatalogXY(last_eval.pp, catalog_stars, jd)
        star == last_eval.sd[jd][i]
    IN (star[2] - cat.cat_x_array[k]) * (star[2] - cat.cat_x_array[k])
       + (star[1] - cat.cat_y_array[k]) * (star[1] - cat.cat_y_array[k])

\* The image stars with a catalog star of the image closer than the radius
Matchable(jd) ==
    { i \in 1..Len(last_eval.sd[jd]) :
         \E k \in Candidates(jd) : D2(jd, i, k) < last_eval.max_radius * last_eval.max_radius }

\* The images that reach the threshold, and what they pool
Qualifying ==
    { jd \in DOMAIN last_eval.sd : Len(PairsOf(jd)) >= config.min_matched_stars }

RECURSIVE PooledCount(_)
PooledCount(jds) ==
    IF jds = {} THEN 0
    ELSE LET jd == CHOOSE j \in jds : TRUE
         IN Len(PairsOf(jd)) + PooledCount(jds \ {jd})

PooledDistances ==
    UNION { { PairsOf(jd)[p][3] : p \in 1..Len(PairsOf(jd)) } : jd \in Qualifying }

RECURSIVE PooledSum(_)
PooledSum(jds) ==
    IF jds = {} THEN 0
    ELSE LET jd == CHOOSE j \in jds : TRUE
             P == PairsOf(jd)
         IN SumSeq([p \in 1..Len(P) |-> Over(P[p][3])]) + PooledSum(jds \ {jd})

PooledMean ==
    LET roots == { d.rad : d \in { e \in PooledDistances : e.num # 0 } }
    IN Surd(PooledSum(Qualifying), UNIT * PooledCount(Qualifying),
            IF roots = {} THEN 1 ELSE CHOOSE r \in roots : TRUE)

\* The cost returned by the evaluation
ReturnedCost == last_eval.result.cost

\* C15: every image star is in at most one pair; the catalog star of a pair
\* is projected inside the image, no catalog star inside the image is closer
\* to the image star, the distance of the pair is their Euclidean distance in
\* pixels and it is strictly less than the radius; an image star has a pair
\* whenever a catalog star inside the image is closer to it than the radius.
C15_MatcherSelection ==
    last_eval.called =>
        \A jd \in DOMAIN last_eval.sd :
            LET P == PairsOf(jd)
                r == last_eval.max_radius
            IN /\ \A p, q \in 1..Len(P) : P[p][1] = P[q][1] => p = q
               /\ \A p \in 1..Len(P) :
                     /\ P[p][1] \in 1..Len(last_eval.sd[jd])
                     /\ P[p][2] \in Candidates(jd)
                     /\ \A k \in Candidates(jd) : D2(jd, P[p][1], P[p][2]) <= D2(jd, P[p][1], k)
                     /\ Square(P[p][3]) = Surd(D2(jd, P[p][1], P[p][2]), UNIT * UNIT, 1)
                     /\ D2(jd, P[p][1], P[p][2]) < r * r
               /\ \A i \in Matchable(jd) : \E p \in 1..Len(P) : P[p][1] = i

\* A star at exactly the radius of its nearest catalog star has no pair, a
\* star whose only close catalog star is outside the image has no pair, and
\* another star is paired
C15_Witness ==
    /\ last_eval.called
    /\ \E jd \in DOMAIN last_eval.sd :
          LET P == PairsOf(jd)
              r == last_eval.max_radius
              cat == CatalogXY(last_eval.pp, catalog_stars, jd)
          IN /\ Len(P) >= 1
             /\ \E i \in 1..Len(last_eval.sd[jd]) :
                   /\ i \notin Matchable(jd)
                   /\ \E k \in Candidates(jd) : D2(jd, i, k) = r * r
             /\ \E i \in 1..Len(last_eval.sd[jd]) :
                   /\ i \notin Matchable(jd)
                   /\ \E k \in (1..Len(cat.cat_x_array)) \ Candidates(jd) : D2(jd, i, k) < r * r

\* C16: among the catalog stars of the image at the same smallest distance
\* of an image star, the pair holds the one that comes first in the catalog,
\* and the pairs are listed in the order of the image stars.
C16_FirstInCatalogOrder ==
    last_eval.called =>
        \A jd \in DOMAIN last_eval.sd :
            LET P == PairsOf(jd)
            IN /\ \A p \in 1..Len(P) : \A k \in Candidates(jd) :
                     D2(jd, P[p][1], k) = D2(jd, P[p][1], P[p][2]) => P[p][2] <= k
               /\ \A p, q \in 1..Len(P) : p < q => P[p][1] < P[q][1]

\* A pair whose catalog star has a rival at the same distance, the rival
\* being the one with the smaller x
C16_Witness ==
    /\ last_eval.called
    /\ \E jd \in DOMAIN last_eval.sd :
          LET P == PairsOf(jd)
              cat == CatalogXY(last_eval.pp, catalog_stars, jd)
          IN \E p \in 1..Len(P) : \E k \in Candidates(jd) :
                /\ k # P[p][2]
                /\ D2(jd, P[p][1], k) = D2(jd, P[p][1], P[p][2])
                /\ cat.cat_x_array[k] < cat.cat_x_array[P[p][2]]

\* C17: an image star is paired exactly as it would be alone on the image,
\* so the number of pairs of an image is the number of its stars that have a
\* catalog star of the image closer than the radius.
C17_NotExclusive ==
    last_eval.called =>
        \A jd \in DOMAIN last_eval.sd :
            LET P == PairsOf(jd)
            IN /\ Len(P) = Cardinality(Matchable(jd))
               /\ \A i \in 1..Len(last_eval.sd[jd]) :
                     LET alone == MatchImage(last_eval.pp, catalog_stars,
                                             << last_eval.sd[jd][i] >>, jd, last_eval.max_radius)
                     IN IF alone = <<>>
                        THEN \A p \in 1..Len(P) : P[p][1] # i
                        ELSE \E p \in 1..Len(P) : P[p] = <<i, alone[1][2], alone[1][3]>>

\* Two pairs of an image hold the same catalog star and the image has more
\* pairs than catalog stars
C17_Witness ==
    /\ last_eval.called
    /\ \E jd \in DOMAIN last_eval.sd :
          LET P == PairsOf(jd)
          IN /\ Len(P) > Cardinality(Candidates(jd))
             /\ \E p, q \in 1..Len(P) : p # q /\ P[p][2] = P[q][2]

\* C18: the number of matched stars of an evaluation is the number of pairs
\* of the images that have at least min_matched_stars pairs, and the mean
\* distance is the mean over the pairs of these images.
C18_PerImageThreshold ==
    last_eval.called =>
        /\ last_eval.n_matched = PooledCount(Qualifying)
        /\ last_eval.result.shape = "triple" =>
              /\ last_eval.result.n_matched = PooledCount(Qualifying)
              /\ last_eval.result.avg_dist = PooledMean

\* An image below the threshold has pairs, another image reaches it
C18_Witness ==
    /\ last_eval.called
    /\ last_eval.result.shape = "triple"
    /\ \E jd \in DOMAIN last_eval.sd : jd \notin Qualifying /\ Len(PairsOf(jd)) >= 1
    /\ \E jd \in Qualifying : Len(PairsOf(jd)) >= 2

C20_CostFormula ==
    (last_eval.called /\ PooledCount(Qualifying) >= 1) =>
        /\ ReturnedCost = Times(Square(PooledMean), Inverse(SqrtOf(PooledCount(Qualifying) + 1)))
        /\ (PooledCount(Qualifying) = 30 /\ PooledDistances = {[num |-> 2, den |-> 1, rad |-> 1]}) =>
              /\ PooledMean = [num |-> 2, den |-> 1, rad |-> 1]
              /\ ReturnedCost = [num |-> 4, den |-> 31, rad |-> 31]
        /\ (PooledCount(Qualifying) = 30 /\ PooledDistances = {[num |-> 0, den |-> 1, rad |-> 1]}) =>
              ReturnedCost = [num |-> 0, den |-> 1, rad |-> 1]

C20_Witness ==
    /\ last_eval.called
    /\ last_eval.result.shape = "triple"
    /\ last_eval.result.n_matched = 30
    /\ PooledDistances = {[num |-> 2, den |-> 1, rad |-> 1]}
    /\ ReturnedCost = [num |-> 4, den |-> 31, rad |-> 31]

\* The distances pooled by an evaluation share their radicand, so that their
\* mean is an exact number of the model
ExactDistances ==
    last_eval.called =>
        LET dist_list == GlobalDistList(last_eval.pp, catalog_stars, last_eval.sd,
                                        SortedKeys(DOMAIN last_eval.sd), last_eval.max_radius, 1)
        IN \A j \in 1..Len(dist_list) :
              /\ UNIT % dist_list[j].den = 0
              /\ dist_list[j].num # 0 => dist_list[j].rad = Radicand(dist_list)

(***************************************************************************)
(* C21: radius monotonicity                                                *)
(***************************************************************************)
\* The pairs (image, star, catalog star) pooled by the call recorded in e
PooledPairsOf(e) ==
    UNION { LET pairs == MatchImage(e.pp, catalog_stars, e.sd[jd], jd, e.max_radius)
            IN IF Len(pairs) < config.min_matched_stars THEN {}
               ELSE { <<jd, pairs[p][1], pairs[p][2]>> : p \in 1..Len(pairs) }
            : jd \in DOMAIN e.sd }

\* The images matched by the call recorded in e that stay below the threshold
BelowThreshold(e) ==
    { jd \in DOMAIN e.sd :
        LET pairs == MatchImage(e.pp, catalog_stars, e.sd[jd], jd, e.max_radius)
        IN Len(pairs) > 0 /\ Len(pairs) < config.min_matched_stars }

\* C21: with the calibration, the catalog, the images and min_matched_stars
\* fixed, the evaluator called with a larger radius reports at least as many
\* matched stars as with the smaller radius, and pools every pair it pooled
\* with the smaller radius; the counts are those after the threshold.
C21_RadiusMonotone ==
    pc = "compared" =>
        /\ first_eval.max_radius <= last_eval.max_radius
        /\ first_eval.sd = last_eval.sd /\ first_eval.pp = last_eval.pp
        /\ first_eval.n_matched <= last_eval.n_matched
        /\ PooledPairsOf(first_eval) \subseteq PooledPairsOf(last_eval)

\* Two calls where an image below the threshold at the smaller radius is
\* pooled at the larger one, next to an image pooled by both
C21_Witness ==
    /\ pc = "compared"
    /\ first_eval.n_matched > 0
    /\ first_eval.n_matched < last_eval.n_matched
    /\ \E jd \in BelowThreshold(first_eval) :
          \E pr \in PooledPairsOf(last_eval) : pr[1] = jd

(***************************************************************************)
(* C22: the images given to the evaluator                                  *)
(***************************************************************************)
\* The entry of calstars_list kept by dict(calstars_list) for its FF name
Kept(i) == \A j \in (i + 1)..Len(calstars_list) : calstars_list[j][1] # calstars_list[i][1]

\* The star dictionary holds the image of entry i under its Julian date
Holds(sd, i) ==
    /\ FFtoJD(calstars_list[i][1]) \in DOMAIN sd
    /\ sd[FFtoJD(calstars_list[i][1])] = calstars_list[i][2]

\* Every image of the star dictionary is an input image with enough stars
FromInput(sd) ==
    \A jd \in DOMAIN sd :
        \E i \in 1..Len(calstars_list) :
            /\ Kept(i)
            /\ Holds(sd, i)
            /\ jd = FFtoJD(calstars_list[i][1])
            /\ Len(calstars_list[i][2]) >= config.ff_min_stars

\* C22: every key of the pool built by autoCheckFit, of its sample and of
\* every star dictionary passed to the evaluator is the Julian date of an
\* input image with at least ff_min_stars stars; the pool holds every input
\* image with ff_min_stars stars or more, those with exactly ff_min_stars
\* included.
C22_PoolInvariant ==
    pc # "start" =>
        /\ FromInput(pool)
        /\ FromInput(star_dict)
        /\ \A sd \in eval_dicts : FromInput(sd)
        /\ last_eval.called => FromInput(last_eval.sd)
        /\ \A i \in 1..Len(calstars_list) :
              (Kept(i) /\ Len(calstars_list[i][2]) >= config.ff_min_stars) => Holds(pool, i)

\* The evaluator was given an image with exactly ff_min_stars stars while
\* the input holds an image with fewer stars
C22_Witness ==
    /\ last_eval.called
    /\ \E i \in 1..Len(calstars_list) :
          /\ Len(calstars_list[i][2]) = config.ff_min_stars
          /\ Holds(last_eval.sd, i)
    /\ \E i \in 1..Len(calstars_list) : Len(calstars_list[i][2]) < config.ff_min_stars

(***************************************************************************)
(* C23: stopping the FieldSolver                                           *)
(***************************************************************************)
\* C23: when the event is set while solve-field is running, run() leaves its
\* wait loop and terminates the subprocess instead of waiting for it to end
\* by itself: run() is never waiting for a running solver once the event is
\* set, and once stopSolver has returned no subprocess started by the
\* FieldSolver is running.
C23_StopEndsSolver ==
    /\ (exit /\ proc = "communicate") => ~Running(subproc)
    /\ stop_pc = "returned" => \A c \in 1..Len(children) : ~Running(c)

(***************************************************************************)
(* C24, C25: stopping the VideoRecorder, and its video files               *)
(***************************************************************************)
\* C24: once stopCapture has set the event the recorder starts no capture
\* program; under every interleaving of the recorder with stopCapture no
\* capture program started by the recorder is running after stopCapture has
\* returned, and at most one capture program is running at any time.
C24_StopEndsCapture ==
    /\ exit => proc # "popen"
    /\ stop_pc = "returned" => \A c \in 1..Len(children) : ~Running(c)
    /\ Cardinality({ c \in 1..Len(children) : Running(c) }) <= 1

\* C25: a video file leaves the temporary directory only when its copy is
\* in the data directory under its name.
C25_DeletedOnlyWhenCopied ==
    [][\A video_file \in tmp_dir \ tmp_dir' :
          <<new_file_name(video_file), video_file>> \in data_dir']_vars

(***************************************************************************)
(* C26, C27, C28: makeFlat                                                 *)
(***************************************************************************)
\* The positions of the medians that hold the image of ff_name
BatchesOf(ff_name) ==
    { m \in 1..Len(flat_ret.ff_median) :
        \E j \in 1..Len(flat_ret.ff_median[m]) : flat_ret.ff_median[m][j] = ff_name }

\* C26: every FF file of the good list that is read successfully is in
\* exactly one batch of at most 10 images, and every batch is part of the
\* flat returned, for every length of the good list.
C26_EveryGoodFileUsed ==
    (flat_pc = "done" /\ flat_ret.kind = "flat") =>
        /\ \A j \in 1..Len(ff_list_good) :
              ff_list_good[j] \notin night_dir.corrupted =>
                  Cardinality(BatchesOf(ff_list_good[j])) = 1
        /\ \A m \in 1..Len(flat_ret.ff_median) : Len(flat_ret.ff_median[m]) <= BATCH
        /\ ff_avg_list = <<>>

\* C27: makeFlat ends by returning a flat or None, never by an exception,
\* here for the directories whose CALSTARS file is found.
C27_ReturnsFlatOrNone ==
    (flat_pc = "done" /\ calstars_file # None /\ IsCalstarsName(calstars_file)) =>
        flat_ret.kind \in {"flat", "None"}

\* C28: when no listed name contains both 'CALSTARS' and '.txt', makeFlat
\* returns None and loads no file as the CALSTARS file; otherwise the file
\* loaded has such a name.
C28_MissingCalstarsDetected ==
    flat_pc # "start" =>
        IF \E j \in 1..Len(night_dir.listing) : IsCalstarsName(night_dir.listing[j])
        THEN IsCalstarsName(calstars_file)
        ELSE calstars_file = None /\ flat_ret = [kind |-> "None"]

(***************************************************************************)
(* C29: the star list of ExtractStars                                      *)
(***************************************************************************)
\* The entries of a star list are (FF name, stars of that FF file), one per
\* FF name at most
KeepsIdentity(list) ==
    /\ \A e \in 1..Len(list) :
          /\ list[e][1] \in 1..Len(ff_stars)
          /\ list[e][2] = ff_stars[list[e][1]]
    /\ \A e, h \in 1..Len(list) : list[e][1] = list[h][1] => e = h

\* C29: every extraction result with stars is appended to the star list
\* under the name of the FF file the stars were extracted from, so the star
\* list, also as written to the CALSTARS file, has at most one entry per FF
\* name, holding the stars of that file.
C29_ResultsKeepTheirFile ==
    /\ KeepsIdentity(star_list)
    /\ calstars_out.kind = "file" => KeepsIdentity(calstars_out.star_list)

(***************************************************************************)
(* C30: the region of interest after parseCapture                          *)
(***************************************************************************)
\* The ROI option is not given or has the disabling value
Disabled(option) == option \in {Absent, -1}

====
